---- MODULE Spec2Model ----
(***************************************************************************)
(* Model of the acquisition pipeline of products-manager:                  *)
(*   - the process-wide request tracker of lib/scraper-utils.ts            *)
(*     (checkRateLimit, recordRequest, recordError, resetTracking,         *)
(*     getUserAgent), and                                                  *)
(*   - the POST /api/scrape-amazon handler of app/api/scrape-amazon,       *)
(*   - the pure functions of the handler and of app/page.tsx.              *)
(* Times are milliseconds, as returned by Date.now().                      *)
(***************************************************************************)
EXTENDS Integers, Sequences, FiniteSets, TLC

VARIABLES
  now,        \* Date.now()
  ticks,      \* clock advances made so far
  late,       \* tracker calls made after the first clock advance
  tracker,    \* lib/scraper-utils.ts: the module-level tracker
  last,       \* the last call of the tracker API and what it returned
  reqs,       \* the invocations of POST /api/scrape-amazon, by slot
  calls,      \* invocations started so far
  products,   \* table products: number of rows by asin
  storage,    \* bucket product-images: the stored paths <<asin, number>>
  imageRows,  \* table product_images: number of rows by <<asin, position>>
  succeeded,  \* asins for which an invocation has returned success
  applied,    \* the pure function applied last: its name, input and output
  catalog     \* the rows of table products as /api/products sees them, and
              \* the database clock in seconds

trackerVars == <<now, ticks, late, tracker, last>>
pipeVars == <<reqs, calls, products, storage, imageRows, succeeded, catalog>>
vars == <<now, ticks, late, tracker, last, reqs, calls, products, storage,
          imageRows, succeeded, applied, catalog>>

(***************************************************************************)
(* Bounds of the model.                                                    *)
(***************************************************************************)
\* Number of clock advances explored.
MaxTicks == 2
\* Number of recordRequest/recordError calls explored after the first clock
\* advance (before it, up to MaxRequests calls are explored).
MaxLate == 1
\* Cap on tracker.totalRequests (recordRequest + recordError calls).
MaxRequests == 20
\* Cap on tracker.errorCount.
MaxErrors == 2
\* Invocations of POST /api/scrape-amazon explored.
MaxCalls == 2
\* Idle periods (no invocation in flight) explored.
MaxIdle == 1
\* Largest image list a product page yields.
MaxImages == 1
\* Failed images explored in one run of the upload loop.
MaxFailures == 2

(***************************************************************************)
(* Program constants.                                                      *)
(***************************************************************************)
\* Date.now() when the module is loaded (any positive instant).
Epoch == 1000000
HourMs == 3600000
DayMs == 86400000
HourlyLimit == 15
ErrorWaitSeconds == 300
SessionDuration == 1800000
NumUserAgents == 12

HourlyReason == "Hourly rate limit exceeded"
ErrorRateReason == "High error rate - pausing to avoid detection"
TooSoonReason == "Minimum delay not met - varying pace like human"

USER_AGENTS == 1..NumUserAgents

\* Clock advances between two operations: below the smallest spacing delay,
\* inside the delay range, one hour and one day exactly
\* (1499 + 3501 = 5000 reaches the largest spacing delay exactly).
Steps == {1499, 3501, HourMs, DayMs}

(***************************************************************************)
(* Pure helpers.                                                           *)
(***************************************************************************)
\* Math.ceil(x / 1000) for an integer x of either sign.
CeilSeconds(x) == -((-x) \div 1000)

ActionTypes == {"page_load", "search", "click", "scroll", "image"}

DelayMin(actionType) ==
  CASE actionType = "page_load" -> 2000
    [] actionType = "search" -> 1500
    [] actionType = "click" -> 300
    [] actionType = "scroll" -> 500
    [] actionType = "image" -> 800

DelayMax(actionType) ==
  CASE actionType = "page_load" -> 5000
    [] actionType = "search" -> 4000
    [] actionType = "click" -> 800
    [] actionType = "scroll" -> 1500
    [] actionType = "image" -> 2500

\* getHumanDelay: a normal draw clamped to [min, max] and rounded; the draw is
\* any integer of the range, sampled here at its two ends and its mean.
getHumanDelay(actionType) ==
  { DelayMin(actionType),
    (DelayMin(actionType) + DelayMax(actionType)) \div 2,
    DelayMax(actionType) }

(***************************************************************************)
(* The tracker.                                                            *)
(***************************************************************************)
InitTracker ==
  [ count |-> 0, hourlyCount |-> 0, dailyCount |-> 0, lastRequest |-> 0,
    hourStart |-> Epoch, dayStart |-> Epoch, errorCount |-> 0,
    totalRequests |-> 0, currentUserAgent |-> 1, sessionStart |-> Epoch ]

Allowed == [allowed |-> TRUE, reason |-> "", waitTime |-> 0]
Denied(reason, waitTime) ==
  [allowed |-> FALSE, reason |-> reason, waitTime |-> waitTime]

\* Mutant of RolloverHour: the hourly reset also clears the daily counter.
RolloverHourClearsDaily(t, n) ==
  IF n - t.hourStart > HourMs
  THEN [t EXCEPT !.hourlyCount = 0, !.hourStart = n, !.dailyCount = 0]
  ELSE t

\* Mutant of RolloverHour: the hourly reset happens at one hour sharp.
RolloverHourAtBoundary(t, n) ==
  IF n - t.hourStart >= HourMs
  THEN [t EXCEPT !.hourlyCount = 0, !.hourStart = n]
  ELSE t

\* checkRateLimit, "Reset hourly counter".
RolloverHour(t, n) ==
  IF n - t.hourStart > HourMs
  THEN [t EXCEPT !.hourlyCount = 0, !.hourStart = n]
  ELSE t

\* Mutant of RolloverDay: the daily reset keeps the error counter.
RolloverDayKeepsErrors(t, n) ==
  IF n - t.dayStart > DayMs
  THEN [t EXCEPT !.dailyCount = 0, !.dayStart = n]
  ELSE t

\* checkRateLimit, "Reset daily counter".
RolloverDay(t, n) ==
  IF n - t.dayStart > DayMs
  THEN [t EXCEPT !.dailyCount = 0, !.dayStart = n, !.errorCount = 0]
  ELSE t

Rollover(t, n) == RolloverDay(RolloverHour(t, n), n)

\* Mutant of HourlyCapReached: the cap is compared with > instead of >=.
HourlyCapOffByOne(t) == t.hourlyCount > HourlyLimit

\* checkRateLimit, "Check hourly limit".
HourlyCapReached(t) == t.hourlyCount >= HourlyLimit

HourlyWait(t, n) == CeilSeconds(HourMs - (n - t.hourStart))

\* Mutant of ErrorRateHigh: the breaker opens at 10% already.
ErrorRateAtLeastTenth(t) ==
  t.totalRequests > 0 /\ 10 * t.errorCount >= t.totalRequests

\* checkRateLimit, "Check error rate": errorCount / totalRequests > 0.1.
ErrorRateHigh(t) ==
  t.totalRequests > 0 /\ 10 * t.errorCount > t.totalRequests

\* Mutant of TooSoon: the elapsed time is compared with <= instead of <.
TooSoonInclusive(t, n, minDelay) ==
  n - t.lastRequest <= minDelay /\ t.lastRequest > 0

\* checkRateLimit, "Check minimum delay between requests".
TooSoon(t, n, minDelay) ==
  n - t.lastRequest < minDelay /\ t.lastRequest > 0

SpacingWait(t, n, minDelay) == CeilSeconds(minDelay - (n - t.lastRequest))

\* The decision of checkRateLimit on the tracker after rollover.
Decision(t, n, minDelay) ==
  IF HourlyCapReached(t) THEN Denied(HourlyReason, HourlyWait(t, n))
  ELSE IF ErrorRateHigh(t) THEN Denied(ErrorRateReason, ErrorWaitSeconds)
  ELSE IF TooSoon(t, n, minDelay)
       THEN Denied(TooSoonReason, SpacingWait(t, n, minDelay))
  ELSE Allowed

\* The delay is drawn only when the spacing check is reached.
DrawsDelay(t) == ~HourlyCapReached(t) /\ ~ErrorRateHigh(t)

\* recordRequest.
RecordRequestEffect(t, n) ==
  [t EXCEPT !.count = @ + 1, !.hourlyCount = @ + 1, !.dailyCount = @ + 1,
            !.totalRequests = @ + 1, !.lastRequest = n]

\* Mutant of RecordErrorEffect: a 429 or 503 closes the hourly window.
RecordErrorTripsOnRateLimit(t, statusCode) ==
  IF statusCode \in {429, 503}
  THEN [t EXCEPT !.errorCount = @ + 1, !.totalRequests = @ + 1,
                 !.hourlyCount = HourlyLimit]
  ELSE [t EXCEPT !.errorCount = @ + 1, !.totalRequests = @ + 1]

\* recordError(statusCode): 429 and 503 are only logged.
RecordErrorEffect(t, statusCode) ==
  [t EXCEPT !.errorCount = @ + 1, !.totalRequests = @ + 1]

\* resetTracking.
ResetTrackingEffect(t) ==
  [t EXCEPT !.count = 0, !.hourlyCount = 0, !.dailyCount = 0,
            !.errorCount = 0, !.totalRequests = 0]

\* Mutant of GetUserAgentEffect: the identity rotates at 30 minutes sharp.
RotatesAtThirtyMinutes(t, n, pick) ==
  IF n - t.sessionStart >= SessionDuration
  THEN [t EXCEPT !.currentUserAgent = pick, !.sessionStart = n]
  ELSE t

\* getUserAgent: the tracker after the call, with `pick` the random draw.
GetUserAgentEffect(t, n, pick) ==
  IF n - t.sessionStart > SessionDuration
  THEN [t EXCEPT !.currentUserAgent = pick, !.sessionStart = n]
  ELSE t

(***************************************************************************)
(* The record of the last tracker operation: its name, the tracker before  *)
(* it, the delay drawn (0: none), the status passed and the value returned.*)
(***************************************************************************)
NoResult == [allowed |-> TRUE, reason |-> "", waitTime |-> 0]

Called(op, pre, minDelay, statusCode, result) ==
  [op |-> op, pre |-> pre, minDelay |-> minDelay, statusCode |-> statusCode,
   result |-> result]

StatusCodes == {0, 404, 429, 503}

(***************************************************************************)
(* POST /api/scrape-amazon: data.                                          *)
(***************************************************************************)
\* In-flight invocations explored at once.
Slots == {1, 2}

ASINs == {"B08N5WRWNW"}

\* uploadImagesToSupabase: Math.min(imageUrls.length, 12).
MaxUploads == 12

\* Request bodies: one that req.json() cannot parse, one without identifier,
\* an ASIN for each catalogue entry and a UPC to be searched.
Unparsable == [parses |-> FALSE, identifier |-> "", identifierType |-> ""]
Bodies ==
  { Unparsable,
    [parses |-> TRUE, identifier |-> "", identifierType |-> "ASIN"],
    [parses |-> TRUE, identifier |-> "012345678905", identifierType |-> "UPC"] }
  \cup { [parses |-> TRUE, identifier |-> a, identifierType |-> "ASIN"] : a \in ASINs }

\* What the search request (maxRedirects: 0) can come back with: a result
\* page naming an asin, a result page naming none, or an error (status other
\* than 200, a redirect included; 0: timeout).
SearchOutcomes ==
  { [status |-> 200, asin |-> a] : a \in ASINs \cup {""} }
  \cup { [status |-> st, asin |-> ""] : st \in {0, 302, 429} }

\* What the product-page request (maxRedirects: 5) can come back with: the
\* page, with its number of image URLs, reached directly or through redirects
\* that axios followed (sampled on a page without images), or an error.
PageOutcomes ==
  { [status |-> 200, images |-> n, redirected |-> FALSE] : n \in 0..MaxImages }
  \cup { [status |-> 200, images |-> 0, redirected |-> TRUE] }
  \cup { [status |-> st, images |-> 0, redirected |-> FALSE] : st \in {0, 404, 429, 503} }

\* The existence query answers, or fails: its error is not looked at and its
\* data is then null.
ExistsOutcomes == {"ok", "error"}

\* What the products insert can come back with, the unique constraint
\* (schema.sql: asin TEXT NOT NULL UNIQUE) aside.
InsertOutcomes == {"ok", "error"}

\* What one image can come back with: stored and recorded, download failed,
\* upload failed, stored but the product_images insert failed.
ImageOutcomes == {"ok", "download_failed", "upload_failed", "insert_failed"}

\* Math.floor(Math.random() * USER_AGENTS.length), sampled in the handler
\* at the last entry of the pool.
UserAgentPicks == {NumUserAgents}

Zeros(n) == [i \in 1..n |-> 0]

\* An invocation: where it stands, its input, what it resolved, the decision
\* of checkRateLimit, its response, and what it has done so far (requests
\* issued, writes, tracker calls, the tracker's counters around the check);
\* `after`: the asins imported when it started; `missed`: its existence query
\* failed on a product that was there; searchFailed, pageFailed: the status
\* of the search or page response that failed (-1: none); redirected: the
\* page came through a redirect; slept: a randomized delay has been slept
\* since the last outbound request; undelayed: outbound requests issued with
\* no such delay before them.
IdleReq ==
  [ pc |-> "idle", body |-> Unparsable, asin |-> "", images |-> 0, idx |-> 0,
    gate |-> Allowed, result |-> "", httpStatus |-> 0, error |-> "",
    waitTime |-> 0, imageRecords |-> <<>>, after |-> {}, missed |-> FALSE,
    searchFailed |-> -1, pageFailed |-> -1, redirected |-> FALSE,
    slept |-> FALSE, undelayed |-> 0,
    nSearch |-> 0, nPage |-> 0, nImage |-> <<>>, nInsert |-> 0, nUpload |-> 0,
    nRecordRequest |-> 0, nRecordError |-> 0,
    errorsBefore |-> 0, errorsAfter |-> 0, totalBefore |-> 0, totalAfter |-> 0 ]

\* route.ts 46-49, 229, 283: a randomized delay has been awaited
\* (getHumanDelay and addRequestJitter, or addReadingDelay).
Sleep(r) == [r EXCEPT !.slept = TRUE]

\* route.ts 221, 275, 455: axios.get is called; the request is undelayed when
\* nothing was slept since the previous one.
Issue(r) ==
  [r EXCEPT !.undelayed = IF r.slept THEN @ ELSE @ + 1, !.slept = FALSE]

\* A response body without a waitTime field.
NoWaitTime == -1

\* NextResponse.json(...): the invocation ends.
Respond(r, result, httpStatus, error, waitTime) ==
  [r EXCEPT !.pc = "done", !.result = result, !.httpStatus = httpStatus,
            !.error = error, !.waitTime = waitTime]

\* The catalogue before anything is stored.
NoCatalog == [clock |-> 0, rows |-> <<>>, backlog |-> 0, updates |-> 0]

\* No pure function has been applied.
NotApplied == [op |-> "none", input |-> <<>>, output |-> <<>>]

InitPipe ==
  /\ reqs = [s \in Slots |-> IdleReq]
  /\ calls = 0
  /\ products = [a \in ASINs |-> 0]
  /\ storage = {}
  /\ imageRows = [a \in ASINs, p \in 0..(MaxUploads - 1) |-> 0]
  /\ succeeded = {}
  /\ catalog = NoCatalog
  /\ applied = NotApplied

(***************************************************************************)
(* Actions of the tracker API.                                             *)
(***************************************************************************)
Init ==
  /\ now = Epoch
  /\ ticks = 0
  /\ late = 0
  /\ tracker = InitTracker
  /\ last = Called("init", InitTracker, 0, 0, NoResult)
  /\ InitPipe

Tick ==
  /\ ticks < MaxTicks
  /\ \E d \in Steps : now' = now + d
  /\ ticks' = ticks + 1
  /\ last' = Called("tick", tracker, 0, 0, NoResult)
  /\ UNCHANGED <<tracker, late>>
  /\ UNCHANGED <<pipeVars, applied>>

CheckRateLimit ==
  \E actionType \in {"page_load", "search"} :
    \E minDelay \in getHumanDelay(actionType) :
      LET t == Rollover(tracker, now)
          d == IF DrawsDelay(t) THEN minDelay ELSE 0
      IN /\ tracker' = t
         /\ last' = Called("checkRateLimit", tracker, d, 0, Decision(t, now, minDelay))
         /\ UNCHANGED <<now, ticks, late>>
         /\ UNCHANGED <<pipeVars, applied>>

RecordRequest ==
  /\ tracker.totalRequests < MaxRequests
  /\ ticks = 0 \/ late < MaxLate
  /\ late' = IF ticks = 0 THEN 0 ELSE late + 1
  /\ tracker' = RecordRequestEffect(tracker, now)
  /\ last' = Called("recordRequest", tracker, 0, 0, NoResult)
  /\ UNCHANGED <<now, ticks>>
  /\ UNCHANGED <<pipeVars, applied>>

RecordError ==
  /\ tracker.totalRequests < MaxRequests
  /\ ticks = 0 \/ late < MaxLate
  /\ late' = IF ticks = 0 THEN 0 ELSE late + 1
  /\ tracker.errorCount < MaxErrors
  /\ \E statusCode \in StatusCodes :
       /\ tracker' = RecordErrorEffect(tracker, statusCode)
       /\ last' = Called("recordError", tracker, 0, statusCode, NoResult)
  /\ UNCHANGED <<now, ticks>>
  /\ UNCHANGED <<pipeVars, applied>>

Next ==
  \/ Tick
  \/ CheckRateLimit
  \/ RecordRequest
  \/ RecordError

Spec == Init /\ [][Next]_vars

(***************************************************************************)
(* getUserAgent and the clock around the 30 minutes of a session.          *)
(***************************************************************************)
SessionSteps == {1, SessionDuration - 1, SessionDuration}

SessionTick ==
  /\ ticks < MaxTicks
  /\ \E d \in SessionSteps : now' = now + d
  /\ ticks' = ticks + 1
  /\ last' = Called("tick", tracker, 0, 0, NoResult)
  /\ UNCHANGED <<tracker, late>>
  /\ UNCHANGED <<pipeVars, applied>>

\* getUserAgent(): rotates when the session is over, returns
\* tracker.currentUserAgent.
GetUserAgent ==
  /\ \E pick \in USER_AGENTS :
       tracker' = GetUserAgentEffect(tracker, now, pick)
  /\ last' = Called("getUserAgent", tracker, 0, 0, NoResult)
  /\ UNCHANGED <<now, ticks, late>>
  /\ UNCHANGED <<pipeVars, applied>>

NextIdentity ==
  \/ SessionTick
  \/ GetUserAgent
  \/ RecordError

SpecIdentity == Init /\ [][NextIdentity]_vars

(***************************************************************************)
(* POST /api/scrape-amazon: the handler, one action per stretch of code    *)
(* between two awaits.                                                     *)
(***************************************************************************)
RECURSIVE Replay(_, _, _, _)
\* The tracker after k recordRequest and e recordError calls made at time n.
Replay(t, k, e, n) ==
  IF k > 0 THEN Replay(RecordRequestEffect(t, n), k - 1, e, n)
  ELSE IF e > 0 THEN Replay(RecordErrorEffect(t, 0), k, e - 1, n)
  ELSE t

\* The handler is explored from 105 s after the module was loaded, with the
\* tracker cold, or after 15 invocations (14 recordRequest, one recordError),
\* the last of them recorded 100 s after the load.
Histories == { <<0, 0>>, <<HourlyLimit - 1, 1>> }

InitPipeline ==
  /\ now = Epoch + 105000
  /\ ticks = 0
  /\ late = 0
  /\ \E h \in Histories : tracker = Replay(InitTracker, h[1], h[2], Epoch + 100000)
  /\ last = Called("init", InitTracker, 0, 0, NoResult)
  /\ InitPipe

\* Idle periods between invocations: five seconds, and one that ends one
\* second before the daily window does.
IdlePeriods == {5000, DayMs - 106000}

\* A response is delivered before the handler runs on.
Responding == \E s \in Slots : reqs[s].pc = "done"

\* Time passes with no invocation in flight.
Idle ==
  /\ \A s \in Slots : reqs[s].pc = "idle"
  /\ ticks < MaxIdle
  /\ \E d \in IdlePeriods : now' = now + d
  /\ ticks' = ticks + 1
  /\ UNCHANGED <<late, tracker, last>>
  /\ UNCHANGED <<pipeVars, applied>>

\* addRequestJitter: at least 100 ms.
JitterMin == 100

\* route.ts 44-49: the time the handler sleeps before it reads the body, at
\* least the smallest page_load delay plus the smallest jitter.
HandlerDelay == DelayMin("page_load") + JitterMin

\* Mutant of AfterDenial: a denial is recorded as a failed request.
DenialCountsAsError(t) == RecordErrorEffect(t, 429)

\* route.ts 31-41: a denial returns at once and leaves the tracker as
\* checkRateLimit left it.
AfterDenial(t) == t

\* route.ts 28-41: checkRateLimit, and the 429 response when it denies.
Start(s) ==
  /\ ~Responding
  /\ reqs[s].pc = "idle"
  /\ \A q \in Slots : q < s => reqs[q].pc # "idle"
  /\ calls < MaxCalls
  /\ calls' = calls + 1
  /\ \E body \in Bodies, actionType \in {"page_load", "search"} :
       \E minDelay \in getHumanDelay(actionType) :
         LET t == Rollover(tracker, now)
             gate == Decision(t, now, minDelay)
             r == [IdleReq EXCEPT !.body = body, !.gate = gate,
                                  !.after = succeeded]
         IN IF gate.allowed
            THEN /\ tracker' = t
                 /\ reqs' = [reqs EXCEPT ![s] = [r EXCEPT !.pc = "delay"]]
            ELSE /\ tracker' = AfterDenial(t)
                 /\ reqs' = [reqs EXCEPT ![s] =
                      Respond([r EXCEPT !.errorsBefore = tracker.errorCount,
                                        !.totalBefore = tracker.totalRequests,
                                        !.errorsAfter = tracker'.errorCount,
                                        !.totalAfter = tracker'.totalRequests],
                              "AdmissionDenied", 429, gate.reason, gate.waitTime)]
  /\ UNCHANGED <<catalog, applied, now, ticks, late, last, products, storage, imageRows, succeeded>>

\* route.ts 175-201: the catch block's response, by status.
CatchResponse(r, statusCode) ==
  IF statusCode \in {429, 503}
  THEN Respond(r, "RateLimited", 429,
               "Amazon rate limit detected - please wait before trying again", NoWaitTime)
  ELSE IF statusCode = 404
  THEN Respond(r, "NotFound", 404, "Product not found on Amazon", NoWaitTime)
  ELSE Respond(r, "Failed", 500, "Failed to scrape Amazon product", NoWaitTime)

\* route.ts 173-202: the catch block: recordError, then the response.
Catch(r, statusCode) ==
  CatchResponse([r EXCEPT !.nRecordError = @ + 1], statusCode)

\* route.ts 43-75 (and 211-226): after the delay and the jitter, the body is
\* parsed and the identifier validated; an ASIN goes to the existence query,
\* anything else to the search request.
AfterDelay(s) ==
  LET r == Sleep(reqs[s]) IN
  /\ ~Responding
  /\ r.pc = "delay"
  /\ now' = now + HandlerDelay
  /\ IF ~r.body.parses
     THEN /\ tracker' = RecordErrorEffect(tracker, 0)
          /\ reqs' = [reqs EXCEPT ![s] = Catch(r, 0)]
     ELSE IF r.body.identifier = ""
     THEN /\ reqs' = [reqs EXCEPT ![s] =
               Respond(r, "InvalidIdentifier", 400, "Invalid product identifier", NoWaitTime)]
          /\ UNCHANGED tracker
     ELSE IF r.body.identifierType = "ASIN"
     THEN /\ reqs' = [reqs EXCEPT ![s] =
               [r EXCEPT !.pc = "exists", !.asin = r.body.identifier]]
          /\ UNCHANGED tracker
     ELSE \E pick \in UserAgentPicks :
          /\ tracker' = GetUserAgentEffect(tracker, now', pick)
          /\ reqs' = [reqs EXCEPT ![s] =
               Issue([r EXCEPT !.pc = "search", !.nSearch = @ + 1])]
  /\ UNCHANGED <<catalog, applied, ticks, late, last, calls, products, storage, imageRows,
                 succeeded>>

\* route.ts 76-86 and 228-261: the search comes back; every failure of it is
\* caught inside searchAmazonByIdentifier and answered with 404.
SearchReturns(s) ==
  LET r == reqs[s] IN
  /\ ~Responding
  /\ r.pc = "search"
  /\ \E o \in SearchOutcomes :
       reqs' = [reqs EXCEPT ![s] =
         IF o.status = 200 /\ o.asin # ""
         THEN Sleep([r EXCEPT !.pc = "exists", !.asin = o.asin])
         ELSE Respond([r EXCEPT !.searchFailed = IF o.status = 200 THEN -1 ELSE o.status],
                      "NotFound", 404, "No product found on Amazon", NoWaitTime)]
  /\ UNCHANGED <<catalog, applied, now, ticks, late, tracker, last, calls, products, storage,
                 imageRows, succeeded>>

\* Mutant of ProductExists: the existence query matches nothing.
ProductNeverExists(db, asin) == FALSE

\* route.ts 89-95: select ... from products where asin = ?.
ProductExists(db, asin) == db[asin] > 0

\* Mutant of OnPageError: the product page is requested again.
RetryPage(r, statusCode) == [r EXCEPT !.nPage = @ + 1]

\* route.ts 275-280 and 173-202: a product-page request that fails throws
\* into the catch block.
OnPageError(r, statusCode) == Catch(r, statusCode)

\* route.ts 88-105 and 264-280: the existence query comes back: 409 when it
\* reports the product, otherwise (no such product, or a failed query) the
\* product page is requested.
ExistsReturns(s) ==
  LET r == reqs[s] IN
  /\ ~Responding
  /\ r.pc = "exists"
  /\ \E o \in ExistsOutcomes :
       IF o = "ok" /\ ProductExists(products, r.asin)
       THEN /\ reqs' = [reqs EXCEPT ![s] =
                 Respond(r, "AlreadyExists", 409, "Product already exists", NoWaitTime)]
            /\ UNCHANGED tracker
       ELSE \E pick \in UserAgentPicks :
            /\ tracker' = GetUserAgentEffect(tracker, now, pick)
            /\ reqs' = [reqs EXCEPT ![s] =
                 Issue([r EXCEPT !.pc = "page", !.nPage = @ + 1,
                                 !.missed = ProductExists(products, r.asin)])]
  /\ UNCHANGED <<catalog, applied, now, ticks, late, last, calls, products, storage, imageRows,
                 succeeded>>

Min(a, b) == IF a < b THEN a ELSE b

\* route.ts 105-147 and 282-432: the product page comes back.  A 200 is
\* extracted, recordRequest is called and the insert is issued; anything else
\* throws into the catch block, which calls recordError.
PageReturns(s) ==
  LET r == reqs[s] IN
  /\ ~Responding
  /\ r.pc = "page"
  /\ \E o \in PageOutcomes :
       IF o.status = 200
       THEN /\ tracker' = RecordRequestEffect(tracker, now)
            /\ reqs' = [reqs EXCEPT ![s] =
                 Sleep([r EXCEPT !.pc = "insert", !.images = o.images,
                                 !.redirected = o.redirected,
                                 !.nImage = Zeros(Min(o.images, MaxUploads)),
                                 !.nRecordRequest = @ + 1, !.nInsert = @ + 1])]
       ELSE /\ tracker' = RecordErrorEffect(tracker, o.status)
            /\ reqs' = [reqs EXCEPT ![s] =
                 OnPageError([r EXCEPT !.pageFailed = o.status], o.status)]
  /\ UNCHANGED <<catalog, applied, now, ticks, late, last, calls, products, storage, imageRows,
                 succeeded>>

\* route.ts 119-171: the insert comes back.  The unique constraint on asin
\* rejects a second row; an error throws into the catch block.  With no image
\* to upload the handler returns success.
InsertReturns(s) ==
  LET r == reqs[s] IN
  /\ ~Responding
  /\ r.pc = "insert"
  /\ \E o \in InsertOutcomes :
       IF o = "ok" /\ products[r.asin] = 0
       THEN /\ products' = [products EXCEPT ![r.asin] = @ + 1]
            /\ UNCHANGED tracker
            /\ IF Min(r.images, MaxUploads) = 0
               THEN /\ reqs' = [reqs EXCEPT ![s] = Respond(r, "Success", 200, "", NoWaitTime)]
                    /\ succeeded' = succeeded \cup {r.asin}
               ELSE /\ reqs' = [reqs EXCEPT ![s] = [r EXCEPT !.pc = "images"]]
                    /\ UNCHANGED succeeded
       ELSE /\ tracker' = RecordErrorEffect(tracker, 0)
            /\ reqs' = [reqs EXCEPT ![s] = Catch(r, 0)]
            /\ UNCHANGED <<products, succeeded>>
  /\ UNCHANGED <<catalog, applied, now, ticks, late, last, calls, storage, imageRows>>

\* Mutant of LoopEnds: a failed image ends the loop.
LoopEndsOnFailure(r, i, o) == o # "ok" \/ i + 1 = Min(r.images, MaxUploads)

\* route.ts 447: for (let i = 0; i < Math.min(imageUrls.length, 12); i++);
\* the catch at 516-522 is inside the loop body.
LoopEnds(r, i, o) == i + 1 = Min(r.images, MaxUploads)

\* Mutant of OnImageError: a failed image throws out of the loop into the
\* handler's catch block.
ImageErrorThrows(r) == Catch(r, 0)

\* route.ts 516-522: the catch inside the loop body logs the failure; the
\* invocation goes on.
OnImageError(r) == r

\* Images of this run that did not end in a record.
Failures(r) == r.idx - Len(r.imageRecords)

\* route.ts 447-523: one iteration of the loop of uploadImagesToSupabase:
\* download, upload to `${asin}/${i + 1}.${extension}`, insert the record with
\* position i and push it; a failure is caught and the loop goes on.  After
\* the last iteration the handler returns success with the records.
ImageReturns(s) ==
  LET r == reqs[s]
      i == r.idx
  IN
  /\ ~Responding
  /\ r.pc = "images"
  /\ \E o \in ImageOutcomes, pick \in UserAgentPicks :
       /\ o = "ok" \/ Failures(r) < MaxFailures
       /\ tracker' = GetUserAgentEffect(tracker, now, pick)
       /\ storage' = IF o \in {"ok", "insert_failed"}
                     THEN storage \cup {<<r.asin, i + 1>>}
                     ELSE storage
       /\ imageRows' = IF o = "ok"
                       THEN [imageRows EXCEPT ![r.asin, i] = @ + 1]
                       ELSE imageRows
       /\ LET r1 == [Issue(r) EXCEPT !.idx = i + 1,
                              !.nImage[i + 1] = @ + 1,
                              !.nUpload = IF o \in {"ok", "insert_failed"} THEN @ + 1 ELSE @,
                              !.imageRecords = IF o = "ok" THEN Append(@, i) ELSE @]
              r2 == IF o = "ok" THEN r1 ELSE OnImageError(r1)
          IN reqs' = [reqs EXCEPT ![s] =
               IF r2.pc = "images" /\ LoopEnds(r, i, o)
               THEN Respond(r2, "Success", 200, "", NoWaitTime) ELSE r2]
       /\ succeeded' = IF LoopEnds(r, i, o) THEN succeeded \cup {r.asin}
                       ELSE succeeded
  /\ UNCHANGED <<catalog, applied, now, ticks, late, last, calls, products>>

\* The response leaves; the invocations still in flight keep the first slots.
Return(s) ==
  /\ reqs[s].pc = "done"
  /\ reqs' = [q \in Slots |->
                IF q < s THEN reqs[q]
                ELSE IF q + 1 \in Slots THEN reqs[q + 1]
                ELSE IdleReq]
  /\ UNCHANGED <<catalog, applied, trackerVars, calls, products, storage, imageRows, succeeded>>

NextPipeline ==
  \/ Idle
  \/ \E s \in Slots : Return(s)
  \/ \E s \in Slots : Start(s)
  \/ \E s \in Slots : AfterDelay(s)
  \/ \E s \in Slots : SearchReturns(s)
  \/ \E s \in Slots : ExistsReturns(s)
  \/ \E s \in Slots : PageReturns(s)
  \/ \E s \in Slots : InsertReturns(s)
  \/ \E s \in Slots : ImageReturns(s)

SpecPipeline == InitPipeline /\ [][NextPipeline]_vars

(***************************************************************************)
(* uploadImagesToSupabase on its own: the loop from its first iteration,   *)
(* for image lists shorter than, as long as and longer than the cap.       *)
(***************************************************************************)
\* amazonProduct.images.length.
ImageLists == {1, 4, MaxUploads, MaxUploads + 1}

\* The invocation at route.ts 152: admitted on a cold tracker, page fetched,
\* recordRequest called, the reading delay slept, product row inserted.
Uploading(a, n) ==
  [IdleReq EXCEPT !.pc = "images",
                  !.body = [parses |-> TRUE, identifier |-> a, identifierType |-> "ASIN"],
                  !.asin = a, !.images = n,
                  !.nImage = Zeros(Min(n, MaxUploads)),
                  !.nPage = 1, !.nInsert = 1, !.nRecordRequest = 1,
                  !.slept = TRUE]

InitUpload ==
  /\ now = Epoch + 105000 + HandlerDelay
  /\ ticks = 0
  /\ late = 0
  /\ tracker = RecordRequestEffect(InitTracker, now)
  /\ last = Called("init", InitTracker, 0, 0, NoResult)
  /\ calls = 1
  /\ storage = {}
  /\ imageRows = [a \in ASINs, p \in 0..(MaxUploads - 1) |-> 0]
  /\ succeeded = {}
  /\ catalog = NoCatalog
  /\ applied = NotApplied
  /\ \E a \in ASINs, n \in ImageLists :
       /\ products = [b \in ASINs |-> IF b = a THEN 1 ELSE 0]
       /\ reqs = [s \in Slots |-> IF s = 1 THEN Uploading(a, n) ELSE IdleReq]

NextUpload == \E s \in Slots : ImageReturns(s)

SpecUpload == InitUpload /\ [][NextUpload]_vars

(***************************************************************************)
(* scrapeAmazonProduct after the fetch: the extraction of the fields from  *)
(* a status-200 document, and the insert of the row.  A text is a sequence *)
(* of characters; a document is what its selectors find.                   *)
(***************************************************************************)
DigitChars == {"0", "1", "2", "3", "4", "5", "6", "7", "8", "9"}

UpperChars ==
  <<"A", "B", "C", "D", "E", "F", "G", "H", "I", "J", "K", "L", "M",
    "N", "O", "P", "Q", "R", "S", "T", "U", "V", "W", "X", "Y", "Z">>
LowerChars ==
  <<"a", "b", "c", "d", "e", "f", "g", "h", "i", "j", "k", "l", "m",
    "n", "o", "p", "q", "r", "s", "t", "u", "v", "w", "x", "y", "z">>

Range(f) == {f[k] : k \in DOMAIN f}

SetMin(S) == CHOOSE x \in S : \A y \in S : x <= y
SetMax(S) == CHOOSE x \in S : \A y \in S : x >= y

RECURSIVE TrimStart(_)
TrimStart(t) ==
  IF t # <<>> /\ Head(t) = " " THEN TrimStart(Tail(t)) ELSE t

RECURSIVE TrimEnd(_)
TrimEnd(t) ==
  IF t # <<>> /\ t[Len(t)] = " " THEN TrimEnd(SubSeq(t, 1, Len(t) - 1)) ELSE t

\* String.prototype.trim.
Trim(t) == TrimEnd(TrimStart(t))

\* text.replace(/[^0-9]/g, '').
OnlyDigits(t) == SelectSeq(t, LAMBDA c : c \in DigitChars)

DigitValue(c) ==
  CASE c = "0" -> 0 [] c = "1" -> 1 [] c = "2" -> 2 [] c = "3" -> 3
    [] c = "4" -> 4 [] c = "5" -> 5 [] c = "6" -> 6 [] c = "7" -> 7
    [] c = "8" -> 8 [] c = "9" -> 9

RECURSIVE DigitsValue(_)
\* The number a sequence of digits denotes.
DigitsValue(t) ==
  IF t = <<>> THEN 0
  ELSE 10 * DigitsValue(SubSeq(t, 1, Len(t) - 1)) + DigitValue(t[Len(t)])

\* An element a selector did not find, and one it found with text t.
NoElement == [present |-> FALSE, text |-> <<>>]
Element(t) == [present |-> TRUE, text |-> t]

\* cheerio .text(): the empty string when nothing is selected.
Text(el) == IF el.present THEN el.text ELSE <<>>

\* The value undefined, and the number n / 10^scale.
Undefined == [defined |-> FALSE, n |-> 0, scale |-> 0]
Number(n, scale) == [defined |-> TRUE, n |-> n, scale |-> scale]

\* Mutant of ExtractPrice: a missing whole part is priced 0.
PriceDefaultsToZero(whole, fraction) ==
  IF whole = <<>> THEN Number(0, 0)
  ELSE Number(DigitsValue(whole \o (IF fraction = <<>> THEN <<"0", "0">> ELSE fraction)),
              Len(IF fraction = <<>> THEN <<"0", "0">> ELSE fraction))

\* route.ts 291-296: parseFloat(`${priceWhole}.${priceFraction || '00'}`)
\* when priceWhole is not empty, of the digits of the two parts.
ExtractPrice(whole, fraction) ==
  IF whole = <<>> THEN Undefined
  ELSE Number(DigitsValue(whole \o (IF fraction = <<>> THEN <<"0", "0">> ELSE fraction)),
              Len(IF fraction = <<>> THEN <<"0", "0">> ELSE fraction))

RECURSIVE AddAll(_, _)
\* imageSet.add for each url, then Array.from(imageSet): insertion order,
\* each url once.
AddAll(acc, urls) ==
  IF urls = <<>> THEN acc
  ELSE AddAll(IF \E k \in 1..Len(acc) : acc[k] = Head(urls)
              THEN acc ELSE Append(acc, Head(urls)),
              Tail(urls))

(***************************************************************************)
(* scrapeAmazonProduct: the image urls.                                    *)
(***************************************************************************)
\* t has the literal lit at position i.
StartsAt(t, i, lit) ==
  /\ i >= 1
  /\ i + Len(lit) - 1 <= Len(t)
  /\ \A k \in 1..Len(lit) : t[i + k - 1] = lit[k]

\* String.prototype.includes.
Includes(t, lit) == \E i \in 1..Len(t) : StartsAt(t, i, lit)

\* [A-Z0-9_].
SizeChars == Range(UpperChars) \cup DigitChars \cup {"_"}

\* The last position of the longest run of [A-Z0-9_] that starts at i
\* (i - 1 when t[i] is not of the class).
RunEnd(t, i) ==
  SetMax({k \in (i - 1)..Len(t) : \A j \in i..k : t[j] \in SizeChars})

DotJpg == <<".", "j", "p", "g">>

\* /\._[A-Z0-9_]+_\./ matches at i: the run after "._" ends in "_" and a
\* "." follows it.
ModifierAt(t, i) ==
  /\ StartsAt(t, i, <<".", "_">>)
  /\ RunEnd(t, i + 2) >= i + 3
  /\ t[RunEnd(t, i + 2)] = "_"
  /\ StartsAt(t, RunEnd(t, i + 2) + 1, <<".">>)

\* /\._[A-Z0-9_]+\.jpg/ matches at i.
JpgModifierAt(t, i) ==
  /\ StartsAt(t, i, <<".", "_">>)
  /\ RunEnd(t, i + 2) >= i + 2
  /\ StartsAt(t, RunEnd(t, i + 2) + 1, DotJpg)

\* url.replace(/\._[A-Z0-9_]+_\./, '.'): the leftmost match only.
StripModifier(t) ==
  LET M == {i \in 1..Len(t) : ModifierAt(t, i)} IN
  IF M = {} THEN t
  ELSE SubSeq(t, 1, SetMin(M) - 1) \o <<".">>
       \o SubSeq(t, RunEnd(t, SetMin(M) + 2) + 2, Len(t))

\* url.replace(/\._[A-Z0-9_]+\.jpg/, '.jpg'): the leftmost match only.
StripJpgModifier(t) ==
  LET M == {i \in 1..Len(t) : JpgModifierAt(t, i)} IN
  IF M = {} THEN t
  ELSE SubSeq(t, 1, SetMin(M) - 1) \o DotJpg
       \o SubSeq(t, RunEnd(t, SetMin(M) + 2) + 5, Len(t))

\* route.ts 299-304: cleanImageUrl.
cleanImageUrl(url) ==
  IF url = <<>> THEN <<>> ELSE StripJpgModifier(StripModifier(url))

\* const cleanUrl = cleanImageUrl(url); if (cleanUrl) imageSet.add(cleanUrl),
\* for each url of a list.
AddCleaned(acc, urls) ==
  AddAll(acc, SelectSeq([k \in 1..Len(urls) |-> cleanImageUrl(urls[k])],
                        LAMBDA u : u # <<>>))

Https == <<"h", "t", "t", "p", "s", ":", "/", "/">>
PlayIcon == <<"p", "l", "a", "y", "-", "i", "c", "o", "n">>

\* route.ts 311-323: the keys of the image map, when the attribute is there
\* and parses.
FromImageBlock(acc, map) ==
  IF map.present /\ map.parses THEN AddCleaned(acc, map.keys) ELSE acc

\* route.ts 326-332: the src of each thumbnail, play icons aside.
FromAltImages(acc, thumbs) ==
  AddCleaned(acc, SelectSeq(thumbs,
                            LAMBDA src : src # <<>> /\ ~Includes(src, PlayIcon)))

\* /"hiRes":"(https:\/\/[^"]+)"/g: the quoted values that are https urls.
HttpsValues(values) ==
  SelectSeq(values, LAMBDA v : StartsAt(v, 1, Https) /\ Len(v) > Len(Https))

RECURSIVE FromScripts(_, _)
\* route.ts 335-364: for each inline script that names colorImages or
\* ImageBlockATF, its hiRes urls and then its large urls.
FromScripts(acc, scripts) ==
  IF scripts = <<>> THEN acc
  ELSE FromScripts(
         IF Head(scripts).marked
         THEN AddCleaned(AddCleaned(acc, HttpsValues(Head(scripts).hiRes)),
                         HttpsValues(Head(scripts).large))
         ELSE acc,
         Tail(scripts))

\* route.ts 367-375: the main image, only when nothing was found so far.
FromHero(acc, hero) ==
  IF acc # <<>> THEN acc
  ELSE LET mainImage == IF hero.landingImage # <<>> THEN hero.landingImage
                        ELSE IF hero.imgBlkFront # <<>> THEN hero.imgBlkFront
                        ELSE hero.oldHires
       IN IF mainImage # <<>> THEN AddCleaned(acc, <<mainImage>>) ELSE acc

\* route.ts 306-378: the images of a document.
ExtractImages(im) ==
  FromHero(FromScripts(FromAltImages(FromImageBlock(<<>>, im.map), im.thumbs),
                       im.scripts),
           im.hero)

\* route.ts 389-393: the trimmed text of each bullet span, the empty ones
\* left out.
ExtractBullets(spans) ==
  SelectSeq([k \in 1..Len(spans) |-> Trim(spans[k])], LAMBDA t : t # <<>>)

\* An upc that was not found, and one that was.
NoUpc == [defined |-> FALSE, text |-> <<>>]
Upc(t) == [defined |-> TRUE, text |-> t]

UpcLabel == <<"U", "P", "C">>
EanLabel == <<"E", "A", "N">>

\* route.ts 408-409: the label of a row names a UPC or an EAN.
LabelMatches(row) ==
  Includes(Trim(row.th), UpcLabel) \/ Includes(Trim(row.th), EanLabel)

RECURSIVE ExtractUpc(_, _)
\* route.ts 405-412: $('tr').each assigns upc at every row whose label
\* matches; rows are visited in document order.
ExtractUpc(upc, rows) ==
  IF rows = <<>> THEN upc
  ELSE ExtractUpc(IF LabelMatches(Head(rows)) THEN Upc(Trim(Head(rows).td))
                  ELSE upc,
                  Tail(rows))

\* route.ts 285-431: the product scrapeAmazonProduct returns for a document.
Extract(asin, doc) ==
  [ asin |-> asin,
    title |-> Trim(Text(doc.title)),
    price |-> ExtractPrice(OnlyDigits(Text(doc.priceWhole)),
                           OnlyDigits(Text(doc.priceFraction))),
    images |-> ExtractImages(doc.images),
    bullets |-> ExtractBullets(doc.bullets),
    upc |-> ExtractUpc(NoUpc, doc.rows) ]

\* SQL NULL.
Null == [defined |-> FALSE, n |-> 0, scale |-> 0]

\* route.ts 110-147 and schema.sql 9-35: the row inserted for a product, with
\* DEFAULT_PRICE_DISCOUNT at its default 0.25; asin and title are NOT NULL.
ProductRow(product) ==
  [ asin |-> product.asin,
    sku |-> <<"A", "M", "Z", "-">> \o product.asin,
    title |-> product.title,
    upc |-> product.upc,
    amazon_price |-> IF product.price.defined THEN product.price ELSE Null,
    ebay_price |-> IF product.price.defined /\ product.price.n # 0
                   THEN Number(75 * product.price.n, product.price.scale + 2)
                   ELSE Null,
    status |-> "INACTIVE",
    bullets |-> product.bullets ]

\* Documents: the title, the two parts of the price, the bullet spans, the
\* images and the table rows found, each absent, empty or present.
TitleElements == {NoElement, Element(<<" ", " ">>), Element(<<" ", "W", "i", " ">>)}
WholeElements == {NoElement, Element(<<"$">>), Element(<<"1", "9", ".">>), Element(<<"1", ",", "2", "9", "9", ".">>)}
FractionElements == {NoElement, Element(<<"9", "9">>), Element(<<"5">>)}
BulletSpans == {<<>>, << <<" ">> >>, << <<" ", "a">>, <<>>, <<"b", " ">> >>}

\* Image urls: a full-size one, the same image under three size modifiers,
\* a second image, one with three modifiers in a row, a play icon and a url
\* that is not https.
ImgA == Https \o <<"i", "/", "a">> \o DotJpg
ImgA_SL == Https \o <<"i", "/", "a", ".", "_", "S", "L", "5", "_">> \o DotJpg
ImgA_AC == Https \o <<"i", "/", "a", ".", "_", "A", "C", "_", "S", "X", "4", "_">> \o DotJpg
ImgA_Bare == Https \o <<"i", "/", "a", ".", "_", "S", "L", "5">> \o DotJpg
ImgB == Https \o <<"i", "/", "b", ".", "p", "n", "g">>
ImgB_SL == Https \o <<"i", "/", "b", ".", "_", "S", "L", "5", "_", ".", "p", "n", "g">>
ImgC_Chain ==
  Https \o <<"i", "/", "c", ".", "_", "A", "C", "_", ".", "_", "S", "L", "5", "_",
             ".", "_", "S", "X", "4", "_">> \o DotJpg
ImgPlay == Https \o <<"i", "/">> \o PlayIcon \o <<".", "p", "n", "g">>
ImgHttp == <<"h", "t", "t", "p", ":", "/", "/", "i", "/", "d">> \o DotJpg

\* $('#imageBlock').attr('data-a-dynamic-image'): absent, not JSON, or an
\* object with these keys.
NoMap == [present |-> FALSE, parses |-> FALSE, keys |-> <<>>]
BadMap == [present |-> TRUE, parses |-> FALSE, keys |-> <<>>]
Map(keys) == [present |-> TRUE, parses |-> TRUE, keys |-> keys]

\* An inline script: whether it names colorImages or ImageBlockATF, and the
\* quoted values of its "hiRes" and "large" keys.
Script(marked, hiRes, large) ==
  [marked |-> marked, hiRes |-> hiRes, large |-> large]

\* #landingImage src, #imgBlkFront src, img[data-old-hires].
Hero(landingImage, imgBlkFront, oldHires) ==
  [landingImage |-> landingImage, imgBlkFront |-> imgBlkFront,
   oldHires |-> oldHires]
NoHero == Hero(<<>>, <<>>, <<>>)

Images(map, thumbs, scripts, hero) ==
  [map |-> map, thumbs |-> thumbs, scripts |-> scripts, hero |-> hero]
NoImages == Images(NoMap, <<>>, <<>>, NoHero)

ImageUrls ==
  { NoImages,
    Images(Map(<<ImgA_SL, ImgB_SL>>), <<ImgA_AC, ImgPlay, ImgB>>,
           <<Script(TRUE, <<ImgA, ImgHttp>>, <<ImgB_SL>>)>>,
           Hero(ImgHttp, <<>>, <<>>)),
    Images(BadMap, <<>>, <<Script(FALSE, <<ImgB>>, <<>>)>>,
           Hero(<<>>, ImgA_Bare, ImgB)),
    Images(NoMap, <<>>, <<>>, Hero(<<>>, <<>>, ImgB_SL)),
    Images(NoMap, <<ImgPlay>>,
           <<Script(TRUE, <<ImgB_SL>>, <<ImgA_SL, ImgB>>),
             Script(TRUE, <<ImgA_AC>>, <<>>)>>,
           NoHero),
    Images(Map(<<ImgA>>), <<ImgC_Chain, ImgA_Bare>>, <<>>, NoHero) }

\* A tr element: the text of its th and of its td cells.
Row(th, td) == [th |-> th, td |-> td]

\* The attribute tables: none, one UPC row, a lower-case label, and a table
\* with a UPC row followed by an EAN row.
RowLists ==
  { <<>>,
    <<Row(<<" ", "U", "P", "C", " ">>, <<" ", "1", "2", " ">>)>>,
    <<Row(<<"u", "p", "c">>, <<"1", "2">>)>>,
    <<Row(<<"B", "r", "a", "n", "d">>, <<"W", "i">>),
      Row(<<"U", "P", "C">>, <<"1", "2">>),
      Row(<<"E", "A", "N">>, <<"0", "3", "4">>),
      Row(<<"S", "i", "z", "e">>, <<"9">>)>> }

Documents ==
  [ title : TitleElements, priceWhole : WholeElements,
    priceFraction : FractionElements, bullets : BulletSpans, images : ImageUrls,
    rows : RowLists ]

\* The state in which pure functions are applied: nothing else moves.
Quiescent ==
  /\ now = Epoch
  /\ ticks = 0
  /\ late = 0
  /\ tracker = InitTracker
  /\ last = Called("init", InitTracker, 0, 0, NoResult)
  /\ reqs = [s \in Slots |-> IdleReq]
  /\ calls = 0
  /\ products = [a \in ASINs |-> 0]
  /\ storage = {}
  /\ imageRows = [a \in ASINs, p \in 0..(MaxUploads - 1) |-> 0]
  /\ succeeded = {}
  /\ catalog = NoCatalog

Rest == <<now, ticks, late, tracker, last, reqs, calls, products, storage,
          imageRows, succeeded, catalog>>

\* "B08N5WRWNW" as a text.
SampleAsin == <<"B", "0", "8", "N", "5", "W", "R", "W", "N", "W">>

InitExtract ==
  /\ Quiescent
  /\ \E doc \in Documents :
       applied = [op |-> "document", input |-> doc, output |-> <<>>]

\* route.ts 105: const amazonProduct = await scrapeAmazonProduct(asin), the
\* response being the document.
Scrape ==
  /\ applied.op = "document"
  /\ applied' = [op |-> "scrapeAmazonProduct", input |-> applied.input,
                 output |-> Extract(SampleAsin, applied.input)]
  /\ UNCHANGED Rest

\* route.ts 119-149: the product returned is inserted.
InsertProduct ==
  /\ applied.op = "scrapeAmazonProduct"
  /\ applied' = [op |-> "insert", input |-> applied.output,
                 output |-> ProductRow(applied.output)]
  /\ UNCHANGED Rest

NextExtract ==
  \/ Scrape
  \/ InsertProduct

SpecExtract == InitExtract /\ [][NextExtract]_vars

(***************************************************************************)
(* app/page.tsx: identifyProductCode, the classifier of the codes typed or *)
(* scanned on the import page.                                             *)
(***************************************************************************)
\* [A-Z0-9] with the i flag.
AlnumChars == Range(UpperChars) \cup Range(LowerChars) \cup DigitChars

\* [A-Z0-9-_] with the i flag.
SkuChars == AlnumChars \cup {"-", "_"}

ToUpperChar(c) ==
  IF c \in Range(LowerChars)
  THEN UpperChars[CHOOSE k \in 1..26 : LowerChars[k] = c]
  ELSE c

\* String.prototype.toUpperCase.
ToUpperCase(t) == [k \in 1..Len(t) |-> ToUpperChar(t[k])]

AllIn(t, chars) == \A k \in 1..Len(t) : t[k] \in chars

\* t has the literal lit at position i (case-insensitive).
HasAt(t, i, lit) ==
  /\ i >= 1
  /\ i + Len(lit) - 1 <= Len(t)
  /\ \A k \in 1..Len(lit) : ToUpperChar(t[i + k - 1]) = ToUpperChar(lit[k])

\* Position i starts ten characters of [A-Z0-9].
TenAt(t, i) ==
  /\ i >= 1
  /\ i + 9 <= Len(t)
  /\ \A k \in i..(i + 9) : t[k] \in AlnumChars

\* /lit([A-Z0-9]{10})/i: the positions where the pattern matches.
MatchesOf(t, lit) ==
  {i \in 1..Len(t) : HasAt(t, i, lit) /\ TenAt(t, i + Len(lit))}

\* match[1] of the leftmost match of /lit([A-Z0-9]{10})/i.
Capture(t, lit) ==
  SubSeq(t, SetMin(MatchesOf(t, lit)) + Len(lit),
            SetMin(MatchesOf(t, lit)) + Len(lit) + 9)

AmazonCom == <<"a", "m", "a", "z", "o", "n", ".", "c", "o", "m", "/">>

\* /amazon\.com\/.*\/([A-Z0-9]{10})/i: the positions of the "/" before the
\* capture, for the leftmost "amazon.com/"; .* is greedy, so the match takes
\* the last of them.
AmazonSlashes(t) ==
  LET starts == {i \in 1..Len(t) : HasAt(t, i, AmazonCom)}
  IN IF starts = {} THEN {}
     ELSE {j \in (SetMin(starts) + Len(AmazonCom))..Len(t) :
             t[j] = "/" /\ TenAt(t, j + 1)}

Rejected == [type |-> "null", code |-> <<>>]
Identified(type, code) == [type |-> type, code |-> code]

\* page.tsx 54-71: the ASIN of an Amazon URL.
IdentifyUrl(t) ==
  IF MatchesOf(t, <<"/", "d", "p", "/">>) # {}
  THEN Identified("ASIN", ToUpperCase(Capture(t, <<"/", "d", "p", "/">>)))
  ELSE IF MatchesOf(t, <<"/", "g", "p", "/", "p", "r", "o", "d", "u", "c", "t", "/">>) # {}
  THEN Identified("ASIN", ToUpperCase(Capture(t, <<"/", "g", "p", "/", "p", "r", "o", "d", "u", "c", "t", "/">>)))
  ELSE IF MatchesOf(t, <<"/", "A", "S", "I", "N", "/">>) # {}
  THEN Identified("ASIN", ToUpperCase(Capture(t, <<"/", "A", "S", "I", "N", "/">>)))
  ELSE IF MatchesOf(t, <<"?", "A", "S", "I", "N", "=">>) \cup MatchesOf(t, <<"&", "A", "S", "I", "N", "=">>) # {}
  THEN LET i == SetMin(MatchesOf(t, <<"?", "A", "S", "I", "N", "=">>)
                       \cup MatchesOf(t, <<"&", "A", "S", "I", "N", "=">>))
       IN Identified("ASIN", ToUpperCase(SubSeq(t, i + 6, i + 15)))
  ELSE IF AmazonSlashes(t) # {}
  THEN Identified("ASIN", ToUpperCase(SubSeq(t, SetMax(AmazonSlashes(t)) + 1,
                                               SetMax(AmazonSlashes(t)) + 10)))
  ELSE Rejected

\* Mutant of Classify: the generic SKU pattern is tried first.
ClassifySkuFirst(t) ==
  IF Len(t) >= 3 /\ AllIn(t, SkuChars)
  THEN Identified("SKU", ToUpperCase(t))
  ELSE IF Len(t) = 10 /\ AllIn(t, AlnumChars)
  THEN Identified("ASIN", ToUpperCase(t))
  ELSE IdentifyUrl(t)

\* page.tsx 21-71: the checks on the trimmed input, in their order.
Classify(t) ==
  IF Len(t) = 10 /\ ToUpperChar(t[1]) = "B" /\ AllIn(t, AlnumChars)
  THEN Identified("ASIN", ToUpperCase(t))
  ELSE IF Len(t) = 10 /\ ToUpperChar(t[1]) = "X" /\ AllIn(t, AlnumChars)
  THEN Identified("FNSKU", ToUpperCase(t))
  ELSE IF Len(t) = 10 /\ AllIn(t, AlnumChars)
  THEN Identified("ASIN", ToUpperCase(t))
  ELSE IF Len(t) = 12 /\ AllIn(t, DigitChars)
  THEN Identified("UPC", t)
  ELSE IF Len(t) = 13 /\ AllIn(t, DigitChars)
  THEN Identified("EAN", t)
  ELSE IF Len(t) \in 6..8 /\ AllIn(t, DigitChars)
  THEN Identified("UPC", t)
  ELSE IF Len(t) >= 3 /\ AllIn(t, SkuChars)
  THEN Identified("SKU", ToUpperCase(t))
  ELSE IdentifyUrl(t)

\* page.tsx 18-73.
identifyProductCode(input) == Classify(Trim(input))

RECURSIVE Repeat(_, _)
Repeat(c, k) == IF k = 0 THEN <<>> ELSE <<c>> \o Repeat(c, k - 1)

\* Inputs: up to two leading characters, then a run of one digit or of one
\* letter, of the lengths around those the patterns ask for.
HeadChars == {"B", "b", "X", "7", "Q", "-", "!", " "}
Heads ==
  {<<>>} \cup {<<c>> : c \in HeadChars}
         \cup {<<c, d>> : c \in HeadChars, d \in HeadChars}
TailLengths == {0, 1, 4, 6, 8, 10, 11}
Tails == {Repeat(c, k) : c \in {"1", "a"}, k \in TailLengths}
CodeInputs == {h \o t : h \in Heads, t \in Tails}

\* URLs and other strings: a host, a path, a code of 9, 10 or 11 characters
\* and what follows.
UrlHosts == {<<"a", "m", "a", "z", "o", "n", ".", "c", "o", "m">>, <<"x", ".", "i", "o">>}
UrlPaths == {<<"/", "d", "p", "/">>, <<"/", "g", "p", "/", "p", "r", "o", "d", "u", "c", "t", "/">>, <<"/", "A", "S", "I", "N", "/">>, <<"?", "a", "s", "i", "n", "=">>, <<"/", "s", "/">>, <<"/">>}
UrlCodes == {<<"b", "0", "8", "n", "5", "w", "r", "w", "n">>, <<"b", "0", "8", "n", "5", "w", "r", "w", "n", "w">>, <<"B", "0", "8", "N", "5", "W", "R", "W", "N", "W", "7">>}
UrlEnds == {<<>>, <<"?", "t", "=", "1">>}
UrlInputs == {h \o p \o c \o e : h \in UrlHosts, p \in UrlPaths, c \in UrlCodes, e \in UrlEnds}

Inputs == CodeInputs \cup UrlInputs \cup {<<"B", "0", "1", "2", "3", "4", "5", "6", "7", "8">>}

InitClassify ==
  /\ Quiescent
  /\ \E input \in Inputs :
       applied = [op |-> "input", input |-> input, output |-> Rejected]

\* page.tsx 215: const identified = identifyProductCode(input).
Identify ==
  /\ applied.op = "input"
  /\ applied' = [op |-> "identifyProductCode", input |-> applied.input,
                 output |-> identifyProductCode(applied.input)]
  /\ UNCHANGED Rest

NextClassify == Identify

SpecClassify == InitClassify /\ [][NextClassify]_vars

(***************************************************************************)
(* From the code to the outbound requests: the body page.tsx posts for an  *)
(* identified code, and the URLs and the key the handler derives from a    *)
(* body, whoever posted it.                                                *)
(***************************************************************************)
\* encodeURIComponent leaves these characters as they are.
UnreservedChars == AlnumChars \cup {"-", "_", ".", "!", "~", "*", "'", "(", ")"}

\* The percent-encoding of the other characters of the inputs.
PercentEncoded(c) ==
  CASE c = " " -> <<"%", "2", "0">>
    [] c = "/" -> <<"%", "2", "F">>
    [] c = "?" -> <<"%", "3", "F">>
    [] c = "=" -> <<"%", "3", "D">>
    [] c = ":" -> <<"%", "3", "A">>

RECURSIVE encodeURIComponent(_)
encodeURIComponent(t) ==
  IF t = <<>> THEN <<>>
  ELSE (IF Head(t) \in UnreservedChars THEN <<Head(t)>> ELSE PercentEncoded(Head(t)))
       \o encodeURIComponent(Tail(t))

NoUrl == <<>>
DpPath == <<"/", "d", "p", "/">>
SearchPath == <<"/", "s", "?", "k", "=">>

\* route.ts 54: const identifier = body.identifier || body.asin.
IdentifierOf(body) == body.identifier

\* route.ts 54-93, 211 and 265: what the handler sends out for a body with an
\* identifier: for the type ASIN the key of the existence query and the path
\* of the product URL, for another type the path of the search URL.
Outbound(body) ==
  IF body.identifierType = "ASIN"
  THEN [ searchUrl |-> NoUrl,
         existsKey |-> IdentifierOf(body),
         pageUrl |-> DpPath \o IdentifierOf(body) ]
  ELSE [ searchUrl |-> SearchPath \o encodeURIComponent(IdentifierOf(body)),
         existsKey |-> <<>>,
         pageUrl |-> NoUrl ]

\* Bodies posted to the handler by another client than the page.
RawBodies ==
  { [identifier |-> <<"B", "0", "8", "N", "5", "W", "R", "W", "N", "W">>, identifierType |-> "ASIN"],
    [identifier |-> <<"b", "0", "8", "n", "5", "w", "r", "w", "n", "w">>, identifierType |-> "ASIN"],
    [identifier |-> <<" ", "B", "0", "8", "N", "5", "W", "R", "W", "N", "W">>, identifierType |-> "ASIN"],
    [identifier |-> <<"0", "1", "2", "3", "4", "5", "6", "7", "8", "9", "0", "5">>, identifierType |-> "UPC"],
    [identifier |-> <<"0", " ", "1", "2", "3", "4", "5", " ", "6", "7", "8", "9", "0", " ", "5">>, identifierType |-> "UPC"],
    [identifier |-> <<"a", "m", "z", "-", "b", "0", "8">>, identifierType |-> "SKU"] }

InitSubmit ==
  /\ Quiescent
  /\ \/ \E input \in Inputs :
          applied = [op |-> "input", input |-> input, output |-> Rejected]
     \/ \E body \in RawBodies :
          applied = [op |-> "body", input |-> body, output |-> Rejected]

\* page.tsx 216-237: an identified code is posted with its type.
Submit ==
  /\ applied.op = "identifyProductCode"
  /\ applied.output # Rejected
  /\ applied' = [op |-> "page body",
                 input |-> [identifier |-> applied.output.code,
                            identifierType |-> applied.output.type],
                 output |-> Rejected]
  /\ UNCHANGED Rest

\* route.ts 51-105: the handler derives its requests from the body.
Handle ==
  /\ applied.op \in {"body", "page body"}
  /\ applied' = [op |-> IF applied.op = "body" THEN "POST" ELSE "page POST",
                 input |-> applied.input,
                 output |-> Outbound(applied.input)]
  /\ UNCHANGED Rest

NextSubmit ==
  \/ Identify
  \/ Submit
  \/ Handle

SpecSubmit == InitSubmit /\ [][NextSubmit]_vars

(***************************************************************************)
(* Properties of the tracker API (checked under Spec).  In a state whose   *)
(* last operation is checkRateLimit, `tracker` is the tracker after window *)
(* rollover, last.pre the tracker before the call, `now` the time of the   *)
(* call and last.result the value returned.                                *)
(***************************************************************************)
Checked == last.op = "checkRateLimit"

\* w is x milliseconds in whole seconds, rounded up.
IsCeilSeconds(w, x) == 1000 * w >= x /\ 1000 * (w - 1) < x

BreakerCondition ==
  tracker.totalRequests > 0 /\ 10 * tracker.errorCount > tracker.totalRequests

\* C1. Hard cap: whenever checkRateLimit finds hourlyCount >= 15 after
\* rollover, it denies with the hourly-limit reason and a wait equal to the
\* time left to hourStart + 1h in whole seconds rounded up, whatever the
\* error ratio and the time since the last request.
C1_HardCap ==
  (Checked /\ tracker.hourlyCount >= 15) =>
    /\ ~last.result.allowed
    /\ last.result.reason = HourlyReason
    /\ IsCeilSeconds(last.result.waitTime, tracker.hourStart + HourMs - now)

\* The cap denies at exactly 15 although the breaker is open and the last
\* request is 1499 ms old; the wait is not a whole number of seconds.
C1_Witness ==
  /\ Checked
  /\ tracker.hourlyCount = 15
  /\ BreakerCondition
  /\ tracker.lastRequest > 0 /\ now - tracker.lastRequest < 1500
  /\ (tracker.hourStart + HourMs - now) % 1000 # 0
  /\ last.result.reason = HourlyReason

\* C2. Error-rate breaker: when the hourly cap does not apply, checkRateLimit
\* denies with the high-error-rate reason and a 300 second wait exactly when
\* totalRequests > 0 and errorCount/totalRequests > 0.10; 2 successes and 1
\* failure are denied, 19 successes and 1 failure are not.
C2_ErrorBreaker ==
  (Checked /\ tracker.hourlyCount < 15) =>
    /\ BreakerCondition =>
         /\ ~last.result.allowed
         /\ last.result.reason = ErrorRateReason
         /\ last.result.waitTime = 300
    /\ ~BreakerCondition => last.result.reason # ErrorRateReason
    /\ (tracker.count = 2 /\ tracker.errorCount = 1 /\ tracker.totalRequests = 3)
         => last.result.reason = ErrorRateReason
    /\ (tracker.count = 19 /\ tracker.errorCount = 1 /\ tracker.totalRequests = 20)
         => last.result.reason # ErrorRateReason

\* 19 successes and 1 failure, the hourly window rolled over: allowed.
C2_Witness ==
  /\ Checked
  /\ tracker.count = 19 /\ tracker.errorCount = 1 /\ tracker.totalRequests = 20
  /\ tracker.hourlyCount < 15
  /\ last.result.allowed

\* 2 successes and 1 failure: denied by the breaker.
C2_WitnessDenied ==
  /\ Checked
  /\ tracker.count = 2 /\ tracker.errorCount = 1 /\ tracker.totalRequests = 3
  /\ last.result = Denied(ErrorRateReason, 300)

\* C3. Minimum spacing: when neither the cap nor the breaker applies, the
\* delay d drawn lies in 1500..5000 and checkRateLimit denies with TooSoon and
\* the remaining wait d - elapsed (whole seconds, rounded up) exactly when a
\* success has been recorded and elapsed < d; otherwise it allows.  Hence
\* elapsed < 1500 is always denied, elapsed >= 5000 never, the cold state never.
C3_MinimumSpacing ==
  (Checked /\ tracker.hourlyCount < 15 /\ ~BreakerCondition) =>
    LET d == last.minDelay
        elapsed == now - tracker.lastRequest
        soon == tracker.lastRequest > 0 /\ elapsed < d
    IN /\ d >= 1500 /\ d <= 5000
       /\ soon =>
            /\ ~last.result.allowed
            /\ last.result.reason = TooSoonReason
            /\ IsCeilSeconds(last.result.waitTime, d - elapsed)
       /\ ~soon => last.result.allowed
       /\ (tracker.lastRequest > 0 /\ elapsed < 1500) => ~last.result.allowed
       /\ elapsed >= 5000 => last.result.allowed
       /\ tracker.lastRequest = 0 => last.result.allowed

\* A check 3501 ms after the last success is denied because the delay drawn
\* is larger.
C3_Witness ==
  /\ Checked
  /\ last.result.reason = TooSoonReason
  /\ now - tracker.lastRequest >= 1500
  /\ last.minDelay > now - tracker.lastRequest

\* C4. Hourly rollover: a check made more than 1 hour after hourStart and at
\* most 24 hours after dayStart sets hourlyCount to 0 and hourStart to now and
\* leaves dailyCount, errorCount, totalRequests and lastRequest unchanged.
C4_HourlyRollover ==
  (Checked /\ now - last.pre.hourStart > HourMs
           /\ now - last.pre.dayStart <= DayMs) =>
    /\ tracker.hourlyCount = 0
    /\ tracker.hourStart = now
    /\ tracker.dailyCount = last.pre.dailyCount
    /\ tracker.errorCount = last.pre.errorCount
    /\ tracker.totalRequests = last.pre.totalRequests
    /\ tracker.lastRequest = last.pre.lastRequest

C4_Witness ==
  /\ Checked
  /\ now - last.pre.hourStart > HourMs
  /\ now - last.pre.dayStart <= DayMs
  /\ last.pre.hourlyCount > 0
  /\ tracker.hourlyCount = 0
  /\ tracker.dailyCount > 0
  /\ tracker.errorCount > 0

\* C5. Daily rollover: a check made more than 24 hours after dayStart sets
\* dailyCount and errorCount to 0 and dayStart to now before deciding, so the
\* breaker sees the reset errorCount and cannot deny.
C5_DailyRollover ==
  (Checked /\ now - last.pre.dayStart > DayMs) =>
    /\ tracker.dailyCount = 0
    /\ tracker.errorCount = 0
    /\ tracker.dayStart = now
    /\ last.result.reason # ErrorRateReason

\* The breaker was open before the call (2 failures of 3) and the call allows.
C5_Witness ==
  /\ Checked
  /\ now - last.pre.dayStart > DayMs
  /\ 10 * last.pre.errorCount > last.pre.totalRequests
  /\ last.pre.dailyCount > 0
  /\ tracker.errorCount = 0
  /\ last.result.allowed

\* C6. Recording: recordRequest adds one to hourlyCount, dailyCount and
\* totalRequests, sets lastRequest to now and keeps errorCount; recordError
\* adds one to errorCount and totalRequests and keeps hourlyCount, dailyCount
\* and lastRequest, whatever the status (429 and 503 included).
C6_Recording ==
  /\ last.op = "recordRequest" =>
       /\ tracker.hourlyCount = last.pre.hourlyCount + 1
       /\ tracker.dailyCount = last.pre.dailyCount + 1
       /\ tracker.totalRequests = last.pre.totalRequests + 1
       /\ tracker.lastRequest = now
       /\ tracker.errorCount = last.pre.errorCount
  /\ last.op = "recordError" =>
       /\ tracker.errorCount = last.pre.errorCount + 1
       /\ tracker.totalRequests = last.pre.totalRequests + 1
       /\ tracker.hourlyCount = last.pre.hourlyCount
       /\ tracker.dailyCount = last.pre.dailyCount
       /\ tracker.lastRequest = last.pre.lastRequest

\* A 429 recorded after successes, some time after the last one.
C6_Witness ==
  /\ last.op = "recordError"
  /\ last.statusCode = 429
  /\ last.pre.hourlyCount > 0
  /\ now > last.pre.lastRequest /\ last.pre.lastRequest > 0

(***************************************************************************)
(* Claims about POST /api/scrape-amazon, checked under SpecPipeline.       *)
(***************************************************************************)
AdmissionDenied(r) == r.pc = "done" /\ r.result = "AdmissionDenied"

\* The invocation has issued no request to Amazon and written nothing.
NoWork(r) ==
  /\ r.nSearch = 0 /\ r.nPage = 0 /\ r.nImage = <<>>
  /\ r.nInsert = 0 /\ r.nUpload = 0 /\ r.imageRecords = <<>>

NoRecording(r) == r.nRecordRequest = 0 /\ r.nRecordError = 0

\* What every denied or invalid invocation has (not) done, apart from the
\* error counter.
RejectedCheaply(r) ==
  /\ ~r.gate.allowed => AdmissionDenied(r)
  /\ AdmissionDenied(r) =>
       /\ ~r.gate.allowed
       /\ r.httpStatus = 429
       /\ r.error = r.gate.reason /\ r.waitTime = r.gate.waitTime
       /\ NoWork(r) /\ NoRecording(r)
       /\ r.totalAfter = r.totalBefore
       /\ r.totalAfter = tracker.totalRequests
       /\ r.errorsAfter = tracker.errorCount
  /\ (r.pc = "done" /\ r.result = "InvalidIdentifier") =>
       /\ r.httpStatus = 400
       /\ NoWork(r) /\ NoRecording(r)

C7_WitnessInvalid ==
  \E s \in Slots :
    /\ reqs[s].pc = "done"
    /\ reqs[s].result = "InvalidIdentifier"
    /\ reqs[s].body.parses

\* C8 as stated. Shared-state consistency under concurrency: with several
\* invocations in flight against the one tracker, hourlyCount never exceeds
\* the hourly limit of 15 within one hourly window.
C8_HourlyCountWithinLimit == tracker.hourlyCount <= HourlyLimit

\* C9. No automatic retry: within one invocation the search request, the
\* product-page request and each image download are issued at most once, and
\* an invocation that a failed request has ended has issued none of them
\* twice.
C9_NoAutomaticRetry ==
  \A s \in Slots :
    /\ reqs[s].nSearch <= 1
    /\ reqs[s].nPage <= 1
    /\ \A i \in DOMAIN reqs[s].nImage : reqs[s].nImage[i] <= 1
    /\ reqs[s].result \in {"NotFound", "RateLimited", "Failed"} => reqs[s].pc = "done"

\* A search that found the product, then a product page answered with 429 or
\* 503: the invocation has ended with one request of each kind.
C9_Witness ==
  \E s \in Slots :
    /\ reqs[s].pc = "done"
    /\ reqs[s].result = "RateLimited"
    /\ reqs[s].nSearch = 1
    /\ reqs[s].nPage = 1

\* An image download that failed: the loop went on to the end and the
\* invocation succeeded without the image.
C9_WitnessImage ==
  \E s \in Slots :
    /\ reqs[s].pc = "done"
    /\ reqs[s].result = "Success"
    /\ reqs[s].nImage = <<1>>
    /\ reqs[s].nUpload = 0

\* Exactly one product row, and at most one image record per position, for
\* every asin an invocation has succeeded on.
OneProduct ==
  \A a \in succeeded :
    /\ products[a] = 1
    /\ \A p \in 0..(MaxUploads - 1) : imageRows[a, p] <= 1

C10_WitnessQueryFailed ==
  \E s \in Slots :
    /\ reqs[s].pc = "done"
    /\ reqs[s].asin \in reqs[s].after
    /\ reqs[s].missed
    /\ reqs[s].result = "Failed"
    /\ products[reqs[s].asin] = 1

AttemptedInOrder(r) ==
  /\ Len(r.nImage) = Min(r.images, MaxUploads)
  /\ r.idx <= Len(r.nImage)
  /\ \A i \in 1..Len(r.nImage) : r.nImage[i] = (IF i <= r.idx THEN 1 ELSE 0)

\* C11. Image failure isolation: the loop attempts exactly the first
\* min(n, 12) images, each once and in index order; whatever image fails
\* (download, upload or record insert), the loop goes on, and the invocation
\* responds only after image min(n, 12) has been attempted.
C11_ImageFailureIsolation ==
  \A s \in Slots :
    reqs[s].pc \in {"images", "done"} /\ reqs[s].nInsert = 1 /\ reqs[s].images > 0
    => /\ AttemptedInOrder(reqs[s])
       /\ reqs[s].pc = "images" => reqs[s].idx < Min(reqs[s].images, MaxUploads)
       /\ (reqs[s].pc = "done" /\ reqs[s].result = "Success")
            => reqs[s].idx = Min(reqs[s].images, MaxUploads)

\* A list of 13 images: 12 attempted, two of them failed, the last one, after
\* the failures, recorded.
C11_Witness ==
  \E s \in Slots :
    /\ reqs[s].pc = "done"
    /\ reqs[s].images = MaxUploads + 1
    /\ reqs[s].idx = MaxUploads
    /\ Failures(reqs[s]) = 2
    /\ reqs[s].imageRecords[Len(reqs[s].imageRecords)] = MaxUploads - 1
    /\ reqs[s].nUpload = MaxUploads - 1


\* C12 as stated. Image position stability: the result of the upload loop
\* has one entry per attempted image, and the entry of the image at 0-based
\* index k has position k, whichever other images failed.
C12_EntryPerAttemptedImage ==
  \A s \in Slots :
    (reqs[s].pc = "done" /\ reqs[s].result = "Success")
    => /\ Len(reqs[s].imageRecords) = reqs[s].idx
       /\ \A k \in 1..Len(reqs[s].imageRecords) : reqs[s].imageRecords[k] = k - 1

\* Four images, the one at position 1 failed: the records returned are those
\* of positions 0, 2 and 3.
C12_ThreeRecordsOfFour ==
  \E s \in Slots :
    /\ reqs[s].pc = "done"
    /\ reqs[s].images = 4
    /\ reqs[s].imageRecords = <<0, 2, 3>>

\* The records returned carry the index of their image as position, in
\* increasing order.
PositionsUnshifted ==
  \A s \in Slots :
    \A k \in 1..Len(reqs[s].imageRecords) :
      /\ reqs[s].imageRecords[k] < reqs[s].idx
      /\ reqs[s].nImage[reqs[s].imageRecords[k] + 1] = 1
      /\ imageRows[reqs[s].asin, reqs[s].imageRecords[k]] >= 1
      /\ k > 1 => reqs[s].imageRecords[k - 1] < reqs[s].imageRecords[k]

(***************************************************************************)
(* More claims about POST /api/scrape-amazon, checked under SpecPipeline.  *)
(***************************************************************************)
\* C13. Images are enrichment: an invocation that has fetched the page and
\* inserted the product row and is uploading images, or has uploaded them,
\* has not called recordError and is not failed; it ends in Success (200),
\* also with no image stored, and the product row is still there.
C13_ImagesAreEnrichment ==
  \A s \in Slots :
    (reqs[s].pc = "images" \/ reqs[s].idx > 0)
    => /\ reqs[s].nRecordError = 0
       /\ reqs[s].nPage = 1 /\ reqs[s].nInsert = 1
       /\ products[reqs[s].asin] = 1
       /\ reqs[s].pc = "images" => reqs[s].result = ""
       /\ reqs[s].pc # "images" =>
            /\ reqs[s].pc = "done"
            /\ reqs[s].result = "Success" /\ reqs[s].httpStatus = 200
            /\ reqs[s].asin \in succeeded

\* Success with every image failed and nothing stored.
C13_Witness ==
  \E s \in Slots :
    /\ reqs[s].pc = "done"
    /\ reqs[s].result = "Success"
    /\ reqs[s].idx = Min(reqs[s].images, MaxUploads)
    /\ reqs[s].idx > 0
    /\ reqs[s].imageRecords = <<>>
    /\ reqs[s].nUpload = 0
    /\ products[reqs[s].asin] = 1

\* The typed failure the pipeline is to end in on a response of status st.
TypedFailure(st) ==
  IF st = 404 THEN "NotFound"
  ELSE IF st \in {429, 503} THEN "RateLimited"
  ELSE "Failed"

\* C14 as stated. Strict status validation: an invocation whose search or
\* product-page response was a redirect or had a status other than 200 ends
\* in NotFound for 404, RateLimited for 429 or 503 and Failed (unexpected)
\* otherwise, and nothing is extracted and inserted from such a response.
C14_StrictStatusValidation ==
  \A s \in Slots :
    /\ reqs[s].searchFailed # -1 =>
         /\ reqs[s].pc = "done"
         /\ reqs[s].result = TypedFailure(reqs[s].searchFailed)
         /\ reqs[s].nPage = 0 /\ reqs[s].nInsert = 0
    /\ reqs[s].pageFailed # -1 =>
         /\ reqs[s].pc = "done"
         /\ reqs[s].result = TypedFailure(reqs[s].pageFailed)
         /\ reqs[s].nInsert = 0
    /\ reqs[s].redirected => reqs[s].nInsert = 0

\* The product-page pass alone: a status other than 200 ends the invocation
\* in the typed failure, with recordError called and nothing inserted.
C14_PagePass ==
  \A s \in Slots :
    reqs[s].pageFailed # -1 =>
      /\ reqs[s].pc = "done"
      /\ reqs[s].result = TypedFailure(reqs[s].pageFailed)
      /\ reqs[s].nInsert = 0 /\ reqs[s].nRecordError = 1

\* A search answered with 429: the invocation ends in NotFound (404) and
\* recordError is not called.
C14_SearchRateLimitedAsNotFound ==
  \E s \in Slots :
    /\ reqs[s].pc = "done"
    /\ reqs[s].searchFailed = 429
    /\ reqs[s].result = "NotFound" /\ reqs[s].httpStatus = 404
    /\ reqs[s].nRecordError = 0

\* A product page reached through a redirect: extracted and inserted.
C14_RedirectFollowed ==
  \E s \in Slots :
    /\ reqs[s].pc = "done"
    /\ reqs[s].redirected
    /\ reqs[s].result = "Success"

\* C15 as stated. Wait hints on terminal states: every AdmissionDenied and
\* every RateLimited response carries a reason and a wait duration in
\* seconds.
C15_WaitHints ==
  \A s \in Slots :
    (reqs[s].pc = "done" /\ reqs[s].result \in {"AdmissionDenied", "RateLimited"})
    => /\ reqs[s].error # ""
       /\ reqs[s].waitTime # NoWaitTime
       /\ reqs[s].waitTime >= 0

\* AdmissionDenied alone carries both.
C15_DeniedCarriesWait ==
  \A s \in Slots :
    AdmissionDenied(reqs[s]) =>
      /\ reqs[s].error \in {HourlyReason, ErrorRateReason, TooSoonReason}
      /\ reqs[s].waitTime >= 0

\* A product page answered with 429 or 503: RateLimited, with a message and
\* no wait duration.
C15_RateLimitedWithoutWait ==
  \E s \in Slots :
    /\ reqs[s].pc = "done"
    /\ reqs[s].result = "RateLimited"
    /\ reqs[s].pageFailed \in {429, 503}
    /\ reqs[s].error # ""
    /\ reqs[s].waitTime = NoWaitTime

(***************************************************************************)
(* Claims about the extraction, checked under SpecExtract.                 *)
(***************************************************************************)
\* C16. Graceful extraction: whatever fields a status-200 document lacks,
\* scrapeAmazonProduct returns a product: a missing title is the empty
\* string, a missing whole part of the price leaves the price undefined
\* (also when the fraction is there), missing bullets and images are empty
\* lists; the row inserted carries the title as it is and NULL prices.
C16_GracefulExtraction ==
  /\ applied.op = "scrapeAmazonProduct" =>
       LET doc == applied.input
           product == applied.output
       IN /\ product.asin = SampleAsin
          /\ ~doc.title.present => product.title = <<>>
          /\ doc.title.present => product.title = Trim(doc.title.text)
          /\ product.price.defined
               <=> (doc.priceWhole.present /\
                    \E k \in 1..Len(doc.priceWhole.text) :
                       doc.priceWhole.text[k] \in DigitChars)
          /\ doc.bullets = <<>> => product.bullets = <<>>
          /\ doc.images = NoImages => product.images = <<>>
  /\ applied.op = "insert" =>
       LET product == applied.input
           row == applied.output
       IN /\ row.title = product.title
          /\ row.asin = product.asin
          /\ ~product.price.defined =>
               ~row.amazon_price.defined /\ ~row.ebay_price.defined
          /\ row.bullets = product.bullets

\* A document with nothing but a price fraction: the row has an empty title
\* and no price.
C16_Witness ==
  /\ applied.op = "insert"
  /\ applied.input.title = <<>>
  /\ ~applied.input.price.defined
  /\ applied.input.bullets = <<>>
  /\ applied.input.images = <<>>
  /\ applied.output.title = <<>>
  /\ ~applied.output.amazon_price.defined

(***************************************************************************)
(* Claims about identifyProductCode, checked under SpecClassify.           *)
(***************************************************************************)
Classified == applied.op = "identifyProductCode"

\* The trimmed input is ten characters of [A-Za-z0-9].
TenAlnum(t) == Len(t) = 10 /\ AllIn(t, AlnumChars)

\* The trimmed input is k digits.
NDigits(t, k) == Len(t) = k /\ AllIn(t, DigitChars)

\* C17. Classifier priority: the first pattern that matches decides: ten
\* alphanumeric characters are ASIN when they start with B, FNSKU when they
\* start with X and ASIN otherwise; 12 digits are UPC, 13 digits EAN, 6 to 8
\* digits UPC; SKU is the type only of an input that matches none of these;
\* "B012345678" is ASIN.
C17_ClassifierPriority ==
  Classified =>
    LET t == Trim(applied.input)
        type == applied.output.type
    IN /\ (TenAlnum(t) /\ t[1] \in {"B", "b"}) => type = "ASIN"
       /\ (TenAlnum(t) /\ t[1] \in {"X", "x"}) => type = "FNSKU"
       /\ (TenAlnum(t) /\ t[1] \notin {"B", "b", "X", "x"}) => type = "ASIN"
       /\ NDigits(t, 12) => type = "UPC"
       /\ NDigits(t, 13) => type = "EAN"
       /\ (NDigits(t, 6) \/ NDigits(t, 7) \/ NDigits(t, 8)) => type = "UPC"
       /\ type = "SKU" =>
            /\ ~TenAlnum(t)
            /\ ~NDigits(t, 12) /\ ~NDigits(t, 13)
            /\ ~NDigits(t, 6) /\ ~NDigits(t, 7) /\ ~NDigits(t, 8)
            /\ Len(t) >= 3 /\ AllIn(t, SkuChars)
       /\ applied.input = <<"B", "0", "1", "2", "3", "4", "5", "6", "7", "8">>
            => type = "ASIN"

\* "B012345678", which the SKU pattern matches too, classified as ASIN.
C17_Witness ==
  /\ Classified
  /\ applied.input = <<"B", "0", "1", "2", "3", "4", "5", "6", "7", "8">>
  /\ applied.output = Identified("ASIN", applied.input)

\* A code of ten characters with a hyphen among them is a SKU.
C17_WitnessSku ==
  /\ Classified
  /\ Len(applied.input) = 10
  /\ applied.input[1] = "B"
  /\ applied.output.type = "SKU"

\* The trimmed input matches one of the eight listed patterns: the seven
\* code patterns, or a URL with /dp/, /gp/product/, /ASIN/ or ?ASIN= before
\* ten alphanumeric characters.
ListedPattern(t) ==
  \/ TenAlnum(t)
  \/ NDigits(t, 12) \/ NDigits(t, 13)
  \/ NDigits(t, 6) \/ NDigits(t, 7) \/ NDigits(t, 8)
  \/ Len(t) >= 3 /\ AllIn(t, SkuChars)
  \/ MatchesOf(t, <<"/", "d", "p", "/">>) # {}
  \/ MatchesOf(t, <<"/", "g", "p", "/", "p", "r", "o", "d", "u", "c", "t", "/">>) # {}
  \/ MatchesOf(t, <<"/", "A", "S", "I", "N", "/">>) # {}
  \/ MatchesOf(t, <<"?", "A", "S", "I", "N", "=">>) # {}

\* C18 as stated. Classifier exactness and totality: identifyProductCode
\* returns a typed identifier exactly when the input matches one of the
\* eight listed patterns, and rejects (null) every other input.
C18_ClassifierExactness ==
  Classified =>
    /\ applied.output.type \in {"ASIN", "FNSKU", "UPC", "EAN", "SKU", "null"}
    /\ applied.output # Rejected <=> ListedPattern(Trim(applied.input))

\* Every input is answered, and every input of a listed pattern is typed.
C18_ListedAreTyped ==
  Classified =>
    /\ applied.output.type \in {"ASIN", "FNSKU", "UPC", "EAN", "SKU", "null"}
    /\ ListedPattern(Trim(applied.input)) => applied.output # Rejected

\* An amazon.com URL with none of the four catalog paths, typed as ASIN.
C18_UnlistedUrlTyped ==
  /\ Classified
  /\ applied.input = AmazonCom \o <<"s", "/", "b", "0", "8", "n", "5", "w", "r", "w", "n", "w">>
  /\ ~ListedPattern(Trim(applied.input))
  /\ applied.output.type = "ASIN"

(***************************************************************************)
(* Claims about the identifier sent out, checked under SpecSubmit.         *)
(***************************************************************************)
\* A code of the given type is normalized: upper case for ASIN, FNSKU and
\* SKU, digits only for UPC and EAN.
Normalized(type, code) ==
  IF type \in {"UPC", "EAN"} THEN AllIn(code, DigitChars)
  ELSE code = ToUpperCase(code) /\ AllIn(code, SkuChars)

\* The handler's requests carry the normalized code of the body.
SentNormalized ==
  LET body == applied.input
      out == applied.output
  IN /\ Normalized(body.identifierType, body.identifier)
     /\ body.identifierType = "ASIN" =>
          /\ out.existsKey = body.identifier
          /\ out.pageUrl = DpPath \o body.identifier
          /\ out.searchUrl = NoUrl
     /\ body.identifierType # "ASIN" =>
          /\ out.searchUrl = SearchPath \o body.identifier
          /\ out.pageUrl = NoUrl

\* C19 as stated. Normalized before the network: the code in the search
\* URL, in the product URL and in the key of the existence query is
\* normalized on every path, a body posted directly included.
C19_NormalizedBeforeNetwork ==
  applied.op \in {"POST", "page POST"} => SentNormalized

\* The path through the page alone: the code identifyProductCode returned
\* is normalized and is what the handler sends.
C19_ThroughThePage ==
  applied.op = "page POST" => SentNormalized

\* A lower-case ASIN posted directly: requested and looked up as it came.
C19_RawAsinSent ==
  /\ applied.op = "POST"
  /\ applied.input.identifier = <<"b", "0", "8", "n", "5", "w", "r", "w", "n", "w">>
  /\ applied.output.pageUrl = DpPath \o applied.input.identifier
  /\ applied.output.existsKey = applied.input.identifier

(***************************************************************************)
(* Claims about getUserAgent, checked under SpecIdentity.  In a state      *)
(* whose last operation is getUserAgent, tracker.currentUserAgent is the   *)
(* identity returned and last.pre the tracker before the call.             *)
(***************************************************************************)
\* C20. Identity rotation: a call of getUserAgent made while
\* now - sessionStart <= 30 minutes returns the identity there was and
\* leaves the session as it is; a call made later returns an identity of
\* the pool and sets sessionStart to now; recording an outcome in between
\* does not change the identity, which is a member of the pool in every
\* state.
C20_IdentityRotation ==
  /\ tracker.currentUserAgent \in USER_AGENTS
  /\ last.op = "getUserAgent" =>
       IF now - last.pre.sessionStart <= SessionDuration
       THEN tracker = last.pre
       ELSE /\ tracker.sessionStart = now
            /\ tracker.currentUserAgent \in USER_AGENTS
            /\ tracker = [last.pre EXCEPT !.sessionStart = now,
                            !.currentUserAgent = tracker.currentUserAgent]
  /\ last.op \in {"tick", "recordError"} =>
       /\ tracker.currentUserAgent = last.pre.currentUserAgent
       /\ tracker.sessionStart = last.pre.sessionStart

\* A call 30 minutes to the millisecond after the session started: no
\* rotation.
C20_Witness ==
  /\ last.op = "getUserAgent"
  /\ now - last.pre.sessionStart = SessionDuration
  /\ tracker = last.pre

\* A call one millisecond later: another identity, a new session.
C20_WitnessRotated ==
  /\ last.op = "getUserAgent"
  /\ now - last.pre.sessionStart = SessionDuration + 1
  /\ tracker.sessionStart = now
  /\ tracker.currentUserAgent # last.pre.currentUserAgent

(***************************************************************************)
(* C21: the outbound requests of one invocation and their delays.          *)
(***************************************************************************)
\* C21: within one acquisition every outbound request - the search, the
\* product page and each image download - is issued after the previous one
\* has completed and directly after a randomized delay of its own: no
\* invocation ever issues a request with no delay slept since its previous
\* request.
C21_SerializedDelayed ==
  \A s \in Slots : reqs[s].undelayed = 0

\* The search and the product-page request do follow a delay: only image
\* downloads after the first are issued without one.
C21_OnlyLaterImagesUndelayed ==
  \A s \in Slots :
    LET r == reqs[s] IN
    r.undelayed = (IF r.idx > 1 THEN r.idx - 1 ELSE 0)

\* The second image of a list has been requested right after the first one.
C21_SecondImageUndelayed ==
  \E s \in Slots :
    /\ reqs[s].images >= 2
    /\ reqs[s].idx = 2
    /\ reqs[s].undelayed = 1

(***************************************************************************)
(* C22: the image list of scrapeAmazonProduct.                             *)
(***************************************************************************)
\* A size modifier is left in u.
HasModifier(u) == \E i \in 1..Len(u) : ModifierAt(u, i) \/ JpgModifierAt(u, i)

\* The places of u where a size modifier starts.
ModifierCount(u) ==
  Cardinality({i \in 1..Len(u) : ModifierAt(u, i) \/ JpgModifierAt(u, i)})

RECURSIVE FullyStripped(_)
\* u with every size modifier taken out.
FullyStripped(u) ==
  IF \E i \in 1..Len(u) : ModifierAt(u, i) THEN FullyStripped(StripModifier(u))
  ELSE IF \E i \in 1..Len(u) : JpgModifierAt(u, i)
  THEN FullyStripped(StripJpgModifier(u))
  ELSE u

RECURSIVE Flatten(_)
Flatten(ss) == IF ss = <<>> THEN <<>> ELSE Head(ss) \o Flatten(Tail(ss))

\* The urls a document shows, in the order of the strategies: the keys of the
\* attribute image map, the thumbnails, the hiRes and large references of
\* each marked inline script, and the hero image when nothing else was found.
Discovered(im) ==
  LET fromMap == IF im.map.present /\ im.map.parses THEN im.map.keys ELSE <<>>
      fromThumbs == SelectSeq(im.thumbs,
                      LAMBDA u : u # <<>> /\ ~Includes(u, PlayIcon))
      fromScripts ==
        Flatten([k \in 1..Len(im.scripts) |->
                   IF im.scripts[k].marked
                   THEN HttpsValues(im.scripts[k].hiRes)
                        \o HttpsValues(im.scripts[k].large)
                   ELSE <<>>])
      found == SelectSeq(fromMap \o fromThumbs \o fromScripts,
                         LAMBDA u : u # <<>>)
      hero == IF im.hero.landingImage # <<>> THEN im.hero.landingImage
              ELSE IF im.hero.imgBlkFront # <<>> THEN im.hero.imgBlkFront
              ELSE im.hero.oldHires
  IN IF found # <<>> THEN found
     ELSE IF hero # <<>> THEN <<hero>> ELSE <<>>

\* The discovered urls that are, size modifiers aside, the url u.
Sources(im, u) ==
  {k \in 1..Len(Discovered(im)) : FullyStripped(Discovered(im)[k]) = u}

\* images lists the discovered urls without their size modifiers, each once,
\* in the order in which they were first discovered.
ImageListOf(im, images) ==
  /\ \A p \in 1..Len(images) : ~HasModifier(images[p])
  /\ \A p, q \in 1..Len(images) : p # q => images[p] # images[q]
  /\ \A p \in 1..Len(images) : Sources(im, images[p]) # {}
  /\ \A k \in 1..Len(Discovered(im)) :
       \E p \in 1..Len(images) : images[p] = FullyStripped(Discovered(im)[k])
  /\ \A p, q \in 1..Len(images) :
       (p < q /\ Sources(im, images[p]) # {} /\ Sources(im, images[q]) # {})
         => SetMin(Sources(im, images[p])) < SetMin(Sources(im, images[q]))

\* C22: the images list produced by scrapeAmazonProduct holds only urls
\* without size modifier, each at most once, in the order of first discovery
\* across the strategies (image map, thumbnails, hiRes and large references
\* of the inline scripts, the hero image only when nothing else was found);
\* two discovered urls that differ only by a size modifier give one entry.
C22_ImageListInvariant ==
  applied.op = "scrapeAmazonProduct"
    => ImageListOf(applied.input.images, applied.output.images)

\* The same for the documents whose urls carry at most one size modifier.
C22_SingleModifierUrls ==
  (/\ applied.op = "scrapeAmazonProduct"
   /\ \A k \in 1..Len(Discovered(applied.input.images)) :
        ModifierCount(Discovered(applied.input.images)[k]) <= 1)
    => ImageListOf(applied.input.images, applied.output.images)

\* Five references to two images under different size modifiers have been
\* extracted as two entries.
C22_TwoOfFive ==
  /\ applied.op = "scrapeAmazonProduct"
  /\ Len(Discovered(applied.input.images)) >= 5
  /\ applied.output.images = <<ImgA, ImgB>>

\* A url with three size modifiers in a row has been listed with one of them
\* left.
C22_ModifierLeft ==
  /\ applied.op = "scrapeAmazonProduct"
  /\ \E p \in 1..Len(applied.output.images) :
       HasModifier(applied.output.images[p])

(***************************************************************************)
(* C23: the upc of a document with several matching rows.                  *)
(***************************************************************************)
\* The rows of a table whose label names a UPC or an EAN.
MatchingRows(rows) == {k \in 1..Len(rows) : LabelMatches(rows[k])}

\* C23: when a document has several attribute-table rows whose label
\* contains "UPC" or "EAN", the extracted upc is the value of the first such
\* row in document order; later matching rows never override it.
C23_UpcFirstMatchWins ==
  applied.op = "scrapeAmazonProduct" =>
    LET rows == applied.input.rows IN
    MatchingRows(rows) # {} =>
      applied.output.upc = Upc(Trim(rows[SetMin(MatchingRows(rows))].td))

\* What the loop yields: the value of the last matching row, and no upc when
\* no row matches.
C23_UpcLastMatch ==
  applied.op = "scrapeAmazonProduct" =>
    LET rows == applied.input.rows IN
    applied.output.upc =
      IF MatchingRows(rows) = {} THEN NoUpc
      ELSE Upc(Trim(rows[SetMax(MatchingRows(rows))].td))

\* A table with a UPC row 12 and, after it, an EAN row 034 has been extracted
\* as upc 034.
C23_LaterRowOverrides ==
  /\ applied.op = "scrapeAmazonProduct"
  /\ Cardinality(MatchingRows(applied.input.rows)) = 2
  /\ applied.output.upc = Upc(<<"0", "3", "4">>)

\* A single matching row has been extracted, trimmed.
C23_SingleRow ==
  /\ applied.op = "scrapeAmazonProduct"
  /\ Cardinality(MatchingRows(applied.input.rows)) = 1
  /\ applied.output.upc = Upc(<<"1", "2">>)

(***************************************************************************)
(* The exported operations of lib/scraper-utils.ts that write the tracker, *)
(* called in any order.                                                    *)
(***************************************************************************)
\* resetTracking(), explored among the calls made after the first clock
\* advance.
ResetTracking ==
  /\ ticks > 0
  /\ late < MaxLate
  /\ late' = late + 1
  /\ tracker' = ResetTrackingEffect(tracker)
  /\ last' = Called("resetTracking", tracker, 0, 0, NoResult)
  /\ UNCHANGED <<now, ticks>>
  /\ UNCHANGED <<pipeVars, applied>>

\* getConsistentHeaders(): calls getUserAgent(); explored among the calls
\* made after the first clock advance.
GetConsistentHeaders ==
  /\ ticks > 0
  /\ late < MaxLate
  /\ late' = late + 1
  /\ \E pick \in UserAgentPicks :
       tracker' = GetUserAgentEffect(tracker, now, pick)
  /\ last' = Called("getConsistentHeaders", tracker, 0, 0, NoResult)
  /\ UNCHANGED <<now, ticks>>
  /\ UNCHANGED <<pipeVars, applied>>

NextExports ==
  \/ Tick
  \/ CheckRateLimit
  \/ RecordRequest
  \/ GetConsistentHeaders
  \/ ResetTracking

SpecExports == Init /\ [][NextExports]_vars

(***************************************************************************)
(* C24: what makes the counters and the identity of the tracker go back.   *)
(***************************************************************************)
\* The last operation took a counter down, or changed the identity.
HourlyDecreased == tracker.hourlyCount < last.pre.hourlyCount
DailyDecreased == tracker.dailyCount < last.pre.dailyCount
IdentityChanged == tracker.currentUserAgent # last.pre.currentUserAgent

\* The last operation was checkRateLimit and rolled a window over after the
\* window had elapsed.
HourlyRolledOver ==
  last.op = "checkRateLimit" /\ now - last.pre.hourStart > HourMs
DailyRolledOver ==
  last.op = "checkRateLimit" /\ now - last.pre.dayStart > DayMs

\* The identity changes only when the 30 minutes of the session are over.
RotatedAfterSession ==
  IdentityChanged =>
    /\ last.op \in {"getUserAgent", "getConsistentHeaders"}
    /\ now - last.pre.sessionStart > SessionDuration

\* C24 as stated: after any sequence of the exported scraper-utility
\* operations, hourlyCount and dailyCount decrease only through a rollover
\* performed when their window (1 h, 24 h since its start) has elapsed, and
\* the identity changes only when the 30-minute session has elapsed; nothing
\* resets them mid-window.
C24_Original ==
  /\ HourlyDecreased => HourlyRolledOver
  /\ DailyDecreased => DailyRolledOver
  /\ RotatedAfterSession

\* C24 as amended: hourlyCount and dailyCount decrease only through such a
\* rollover or through resetTracking, which zeroes the counters at any time
\* and leaves the window starts, the last request time and the identity as
\* they were; the identity changes only when the session has elapsed.
C24_ResetsAtBoundariesOrByResetTracking ==
  /\ HourlyDecreased => (HourlyRolledOver \/ last.op = "resetTracking")
  /\ DailyDecreased => (DailyRolledOver \/ last.op = "resetTracking")
  /\ RotatedAfterSession
  /\ last.op = "resetTracking" =>
       /\ tracker.hourlyCount = 0 /\ tracker.dailyCount = 0
       /\ tracker.hourStart = last.pre.hourStart
       /\ tracker.dayStart = last.pre.dayStart
       /\ tracker.lastRequest = last.pre.lastRequest
       /\ tracker.sessionStart = last.pre.sessionStart

\* checkRateLimit has rolled the hour over and not the day: the hourly
\* counter went back to 0, the daily counter stayed.
C24_Witness ==
  /\ HourlyDecreased
  /\ HourlyRolledOver
  /\ ~DailyRolledOver
  /\ tracker.dailyCount = last.pre.dailyCount
  /\ tracker.dailyCount > 0

\* resetTracking has zeroed the counters 1.499 s into the first window.
C24_WitnessMidWindow ==
  /\ last.op = "resetTracking"
  /\ HourlyDecreased
  /\ DailyDecreased
  /\ now - last.pre.hourStart < HourMs

\* The identity has been rotated after the session was over.
C24_WitnessRotated ==
  /\ IdentityChanged
  /\ last.op = "getConsistentHeaders"

(***************************************************************************)
(* /api/products: the table products behind GET and PATCH, and behind POST *)
(* /api/products/bulk-update, with the trigger of database/schema.sql.     *)
(* Times are seconds of the database clock; a row's id is its place in the *)
(* table.                                                                  *)
(***************************************************************************)
\* Updates explored.
MaxUpdates == 3

\* const limit = 50.
PageLimit == 50
\* thirtyDaysAgo.setDate(thirtyDaysAgo.getDate() - 30).
AgedDays == 30
DaySeconds == 86400
\* posted_at IS NULL.
NoTime == -1
\* The clock when the first row of the exploration can be stored.
CatalogEpoch == 1000

\* The products the pipeline is asked for.
CatalogAsins == {"B08N5WRWNW", "B09XYZ1234"}

Statuses == {"INACTIVE", "POSTED", "SOLD"}

\* The status parameter of GET: the values of StatusFilter in lib/types.ts
\* and the one the handler tests for.
StatusFilters == {"ALL", "INACTIVE", "POSTED", "SOLD", "AGED", "EXPIRED"}

\* route.ts 119-147: the row the pipeline inserts at time n, with the number
\* of product_images rows its upload loop leaves; postings: the times the
\* trigger has set posted_at.
NewRow(id, asin, n, images) ==
  [ id |-> id, asin |-> asin, status |-> "INACTIVE", posted_at |-> NoTime,
    created_at |-> n, images |-> images, postings |-> 0 ]

\* The updates object of a request that names the status only.
Updates == {[status |-> st] : st \in Statuses}

\* Mutant of update_posted_at_column: posted_at is never cleared.
PostedAtNeverCleared(old, new, n) ==
  IF new.status = "POSTED" /\ old.status # "POSTED"
  THEN [new EXCEPT !.posted_at = n]
  ELSE new

\* schema.sql 77-92: the trigger function update_posted_at_column.
update_posted_at_column(old, new, n) ==
  LET set == IF new.status = "POSTED" /\ old.status # "POSTED"
             THEN [new EXCEPT !.posted_at = n]
             ELSE new
  IN IF set.status # "POSTED" /\ old.status = "POSTED"
     THEN [set EXCEPT !.posted_at = NoTime]
     ELSE set

\* UPDATE products SET status = ... : the new row of one row at time n,
\* through the BEFORE UPDATE trigger update_products_posted_at.
UpdateRow(old, u, n) ==
  LET new == update_posted_at_column(old, [old EXCEPT !.status = u.status], n)
  IN [new EXCEPT !.postings = IF new.posted_at \notin {NoTime, old.posted_at}
                              THEN @ + 1 ELSE @]

\* Products in stock before the exploration, one image each, created one
\* second apart.
Backlog(k) == [i \in 1..k |-> NewRow(i, "", i, 1)]

\* The catalogue with k products in stock.
Stocked(k) ==
  [clock |-> CatalogEpoch, rows |-> Backlog(k), backlog |-> k, updates |-> 0]

InitCatalog ==
  /\ now = Epoch
  /\ ticks = 0
  /\ late = 0
  /\ tracker = InitTracker
  /\ last = Called("init", InitTracker, 0, 0, NoResult)
  /\ reqs = [s \in Slots |-> IdleReq]
  /\ calls = 0
  /\ products = [a \in ASINs |-> 0]
  /\ storage = {}
  /\ imageRows = [a \in ASINs, p \in 0..(MaxUploads - 1) |-> 0]
  /\ succeeded = {}
  /\ applied = NotApplied
  /\ catalog = Stocked(0)

\* Everything but the catalogue and the request served last.
Outside == <<now, late, tracker, last, reqs, calls, products, storage,
             imageRows, succeeded>>

\* The rows stored during the exploration.
Tracked == {k \in 1..Len(catalog.rows) : k > catalog.backlog}

\* The request served last, what it asked for and what was answered.
Request(op, input, output) == [op |-> op, input |-> input, output |-> output]

\* Time passes: a second, 30 days.
CatalogSteps == {1, AgedDays * DaySeconds}

Pass ==
  /\ ticks < MaxTicks
  /\ ticks' = ticks + 1
  /\ \E d \in CatalogSteps : catalog' = [catalog EXCEPT !.clock = @ + d]
  /\ applied' = Request("none", <<>>, <<>>)
  /\ UNCHANGED Outside

\* The seconds an invocation of POST /api/scrape-amazon sleeps at least.
HandlerSeconds == HandlerDelay \div 1000

\* route.ts 88-171: an invocation for a product that is not there stores it,
\* and the image records its upload loop got through.  Products are stored
\* before the updates explored.
Persist ==
  /\ ticks = 0
  /\ catalog.updates = 0
  /\ \E asin \in CatalogAsins, images \in 0..MaxImages :
       /\ \A k \in 1..Len(catalog.rows) : catalog.rows[k].asin # asin
       /\ catalog' = [catalog EXCEPT
            !.clock = @ + HandlerSeconds,
            !.rows = Append(@, NewRow(Len(@) + 1, asin,
                                      catalog.clock + HandlerSeconds, images))]
  /\ applied' = Request("POST /api/scrape-amazon", <<>>, <<>>)
  /\ UNCHANGED <<Outside, ticks>>

\* The status and posted_at of the rows ids before an update.
Before(ids) ==
  [id \in ids |-> [status |-> catalog.rows[id].status,
                   posted_at |-> catalog.rows[id].posted_at]]

\* PATCH /api/products: update(updates).eq('id', id).
Patch ==
  /\ catalog.updates < MaxUpdates
  /\ \E id \in Tracked, u \in Updates :
       /\ catalog' = [catalog EXCEPT
            !.updates = @ + 1,
            !.rows[id] = UpdateRow(@, u, catalog.clock)]
       /\ applied' = Request("PATCH", [ids |-> {id}, updates |-> u],
                             Before({id}))
  /\ UNCHANGED <<Outside, ticks>>

\* POST /api/products/bulk-update: update(updates).in('id', ids).
BulkUpdate ==
  /\ catalog.updates < MaxUpdates
  /\ \E ids \in SUBSET Tracked, u \in Updates :
       /\ Cardinality(ids) >= 2
       /\ catalog' = [catalog EXCEPT
            !.updates = @ + 1,
            !.rows = [k \in 1..Len(@) |->
                        IF k \in ids THEN UpdateRow(@[k], u, catalog.clock)
                        ELSE @[k]]]
       /\ applied' = Request("POST bulk-update", [ids |-> ids, updates |-> u],
                             Before(ids))
  /\ UNCHANGED <<Outside, ticks>>

\* part_010 26-37: the filter of GET by its status parameter, at time n.
StatusMatches(row, status, n) ==
  IF status = "EXPIRED"
  THEN /\ row.status = "POSTED"
       /\ row.posted_at # NoTime
       /\ row.posted_at < n - AgedDays * DaySeconds
  ELSE IF status # "ALL" THEN row.status = status
  ELSE TRUE

\* part_010 20-23: product_images!inner(image_url, position): the rows that
\* have an image record.
Joined(rows) == SelectSeq(rows, LAMBDA row : row.images > 0)

RECURSIVE InsertByCreatedAt(_, _)
\* row put into a sequence that is ordered by created_at, newest first.
InsertByCreatedAt(row, sorted) ==
  IF sorted = <<>> THEN <<row>>
  ELSE IF row.created_at >= Head(sorted).created_at THEN <<row>> \o sorted
  ELSE <<Head(sorted)>> \o InsertByCreatedAt(row, Tail(sorted))

RECURSIVE OrderedByCreatedAtDesc(_)
\* .order('created_at', { ascending: false }).
OrderedByCreatedAtDesc(rows) ==
  IF rows = <<>> THEN <<>>
  ELSE InsertByCreatedAt(Head(rows), OrderedByCreatedAtDesc(Tail(rows)))

\* part_010 8-62: the response of GET /api/products?page=&status= at time n.
GetProducts(rows, page, status, n) ==
  LET selected == SelectSeq(Joined(rows),
                            LAMBDA row : StatusMatches(row, status, n))
      ordered == OrderedByCreatedAtDesc(selected)
      offset == (page - 1) * PageLimit
      window == SubSeq(ordered, offset + 1, Min(offset + PageLimit, Len(ordered)))
  IN [ products |-> [k \in 1..Len(window) |-> window[k].id],
       total |-> Len(selected),
       totalPages |-> (Len(selected) + PageLimit - 1) \div PageLimit ]

\* The pages GET is asked for: the first, and those the table has rows for.
Pages == {page \in 1..2 : page = 1 \/ (page - 1) * PageLimit < Len(catalog.rows)}

\* GET /api/products.
Get ==
  /\ \E status \in StatusFilters, page \in Pages :
       applied' = Request("GET", [page |-> page, status |-> status],
                          GetProducts(catalog.rows, page, status, catalog.clock))
  /\ UNCHANGED <<Outside, ticks, catalog>>

NextCatalog ==
  \/ Pass
  \/ Persist
  \/ Patch
  \/ BulkUpdate
  \/ Get

SpecCatalog == InitCatalog /\ [][NextCatalog]_vars

(***************************************************************************)
(* C25: posted_at follows the status.                                      *)
(***************************************************************************)
\* The request served last was an update.
Updated == applied.op \in {"PATCH", "POST bulk-update"}

\* C25: through PATCH /api/products and POST /api/products/bulk-update, an
\* update that changes the status to POSTED from another status sets
\* posted_at to the current time, one that changes it away from POSTED sets
\* posted_at to NULL (so posting again after INACTIVE gives a fresh
\* posted_at), and after any sequence of status-only updates posted_at is
\* non-null exactly when the status is POSTED.
C25_PostedAtTracking ==
  /\ \A k \in 1..Len(catalog.rows) :
       (catalog.rows[k].posted_at # NoTime) <=> (catalog.rows[k].status = "POSTED")
  /\ Updated =>
       \A id \in applied.input.ids :
         LET old == applied.output[id]
             new == catalog.rows[id]
         IN /\ (old.status # "POSTED" /\ new.status = "POSTED")
                 => new.posted_at = catalog.clock
            /\ (old.status = "POSTED" /\ new.status # "POSTED")
                 => new.posted_at = NoTime
            /\ (old.status = "POSTED" /\ new.status = "POSTED")
                 => new.posted_at = old.posted_at

\* PATCH has posted a product for the second time, more than 30 days after
\* it was stored: posted_at is the time of this update.
C25_Witness ==
  /\ applied.op = "PATCH"
  /\ \E id \in applied.input.ids :
       /\ applied.output[id].status = "INACTIVE"
       /\ applied.output[id].posted_at = NoTime
       /\ catalog.rows[id].status = "POSTED"
       /\ catalog.rows[id].postings = 2
       /\ catalog.rows[id].posted_at = catalog.clock
       /\ catalog.clock > catalog.rows[id].created_at + AgedDays * DaySeconds

\* bulk-update has taken two posted products to SOLD: both posted_at are
\* NULL.
C25_WitnessBulkCleared ==
  /\ applied.op = "POST bulk-update"
  /\ Cardinality(applied.input.ids) = 2
  /\ \A id \in applied.input.ids :
       /\ applied.output[id].status = "POSTED"
       /\ applied.output[id].posted_at # NoTime
       /\ catalog.rows[id].status = "SOLD"
       /\ catalog.rows[id].posted_at = NoTime

(***************************************************************************)
(* C26: the storage path of an image and its position.                     *)
(***************************************************************************)
\* The numbers of the stored paths of product a.
StoredNumbers(a) == {path[2] : path \in {q \in storage : q[1] = a}}

\* The positions of the image records of product a.
RecordedPositions(a) == {p \in 0..(MaxUploads - 1) : imageRows[a, p] > 0}

\* C26: every stored image's storage path is {ASIN}/{position}.{extension}
\* with the image's 0-based position (the first image is {ASIN}/0): the
\* object of every image record is stored under the number that is the
\* record's position.
C26_StoragePathIsPosition ==
  \A a \in ASINs : RecordedPositions(a) \subseteq StoredNumbers(a)

\* What the upload loop does: the object of the record at position p is
\* stored under the number p + 1, and no object is stored under 0.
C26_StoragePathIsPositionPlusOne ==
  \A a \in ASINs :
    /\ \A p \in RecordedPositions(a) : p + 1 \in StoredNumbers(a)
    /\ 0 \notin StoredNumbers(a)

\* The first image of a product has its record at position 0 and its object
\* at {ASIN}/1; nothing is stored at {ASIN}/0.
C26_FirstImageStoredAsOne ==
  \E a \in ASINs :
    /\ RecordedPositions(a) = {0}
    /\ StoredNumbers(a) = {1}

(***************************************************************************)
(* C27: the Aged filter of GET /api/products.                              *)
(***************************************************************************)
\* The ids of the products that are POSTED with posted_at set and more than
\* 30 days in the past.
AgedIds ==
  {k \in 1..Len(catalog.rows) :
     /\ catalog.rows[k].status = "POSTED"
     /\ catalog.rows[k].posted_at # NoTime
     /\ catalog.clock - catalog.rows[k].posted_at > AgedDays * DaySeconds}

\* The request served last was GET with this status parameter, first page.
Got(status) ==
  /\ applied.op = "GET"
  /\ applied.input.status = status
  /\ applied.input.page = 1

\* C27: GET /api/products with status=AGED returns exactly the products
\* whose status is POSTED and whose posted_at is set and more than 30 days in
\* the past; INACTIVE or SOLD products, and products POSTED for 30 days or
\* less, are not returned.
C27_AgedFilter ==
  Got("AGED") =>
    /\ Range(applied.output.products) = AgedIds
    /\ applied.output.total = Cardinality(AgedIds)

\* What the handler does with status=AGED: it compares the status column
\* with 'AGED', which no row has, and returns nothing.
C27_AgedMatchesNothing ==
  Got("AGED") => applied.output.products = <<>> /\ applied.output.total = 0

\* The handler's aged logic is under status=EXPIRED: it returns the aged
\* products that have an image record.
C27_ExpiredFilter ==
  Got("EXPIRED") =>
    Range(applied.output.products) = {k \in AgedIds : catalog.rows[k].images > 0}

\* status=AGED has been asked for while a product with images is aged.
C27_AgedProductNotReturned ==
  /\ Got("AGED")
  /\ \E k \in AgedIds : catalog.rows[k].images > 0
  /\ applied.output.products = <<>>

\* status=EXPIRED has returned an aged product.
C27_ExpiredReturned ==
  /\ Got("EXPIRED")
  /\ applied.output.products # <<>>

(***************************************************************************)
(* A caller that follows the advice of checkRateLimit: denied with a       *)
(* waitTime, it waits that many seconds and asks again.                    *)
(***************************************************************************)
\* route.ts 29-41 hands reason and waitTime to the client; scraper-utils
\* 130-195: the client's next call of checkRateLimit, waitTime seconds after
\* the denial, nothing recorded in between.
WaitAndCheck ==
  /\ ticks < MaxTicks
  /\ last.op \in {"checkRateLimit", "waitAndCheck"}
  /\ ~last.result.allowed
  /\ \E actionType \in {"page_load", "search"} :
       \E minDelay \in getHumanDelay(actionType) :
         LET n == now + last.result.waitTime * 1000
             t == Rollover(tracker, n)
             d == IF DrawsDelay(t) THEN minDelay ELSE 0
         IN /\ now' = n
            /\ ticks' = ticks + 1
            /\ tracker' = t
            /\ last' = Called("waitAndCheck", tracker, d, 0, Decision(t, n, minDelay))
            /\ applied' = Request("checkRateLimit", <<>>, last.result)
            /\ UNCHANGED <<late, pipeVars>>

NextRetry ==
  \/ Tick
  \/ CheckRateLimit
  \/ RecordRequest
  \/ RecordError
  \/ WaitAndCheck

SpecRetry == Init /\ [][NextRetry]_vars

(***************************************************************************)
(* C28: the advertised waits.                                              *)
(***************************************************************************)
\* The check made last came waitTime seconds after a denial for this reason.
Retried(reason) ==
  /\ last.op = "waitAndCheck"
  /\ applied.output.reason = reason

\* The check made last was denied for this reason.
DeniedFor(reason) == ~last.result.allowed /\ last.result.reason = reason

\* C28: when checkRateLimit denies with reason R and waitTime w and nothing
\* is recorded in the meantime, the check made w seconds later is not denied
\* for the same reason R: the hourly cap once the window end is reached, the
\* error rate once the 5 minutes have passed, the spacing once the remaining
\* wait has passed.
C28_AdvertisedWaitSuffices ==
  \A reason \in {HourlyReason, ErrorRateReason, TooSoonReason} :
    Retried(reason) => ~DeniedFor(reason)

\* What the code does for the breaker: 5 minutes later it is still open,
\* unless the daily rollover cleared the error count in that check.
C28_BreakerOpenUntilDailyRollover ==
  Retried(ErrorRateReason) =>
    \/ DeniedFor(ErrorRateReason)
    \/ now - last.pre.dayStart > DayMs

\* What the code does for the hourly cap: the wait is sufficient except when
\* it ends on the window end exactly, where the rollover (> 1 h) is not yet
\* due.
C28_HourlySufficientPastWindowEnd ==
  Retried(HourlyReason) =>
    (DeniedFor(HourlyReason) <=> now - last.pre.hourStart = HourMs)

\* The breaker was open, the caller waited the 300 s, the breaker is open.
C28_BreakerStillOpen ==
  /\ Retried(ErrorRateReason)
  /\ applied.output.waitTime = ErrorWaitSeconds
  /\ DeniedFor(ErrorRateReason)
  /\ now - last.pre.dayStart <= DayMs

\* The hourly cap was reached, the caller waited to the window end, the cap
\* still denies, now with a waitTime of 0.
C28_HourlyDeniedAtWindowEnd ==
  /\ Retried(HourlyReason)
  /\ DeniedFor(HourlyReason)
  /\ last.result.waitTime = 0

\* The caller waited the remaining spacing; the check drew a longer delay
\* and denied for the spacing again.
C28_TooSoonAgain ==
  /\ Retried(TooSoonReason)
  /\ DeniedFor(TooSoonReason)

\* A wait that was enough: the hourly cap, asked again past the window end.
C28_HourlyAllowedAfterWait ==
  /\ Retried(HourlyReason)
  /\ last.result.allowed

(***************************************************************************)
(* C29: the accounting of requests.                                        *)
(***************************************************************************)
\* The calls of recordRequest and recordError the invocation has made: its
\* own change of totalRequests.
Recorded(r) == r.nRecordRequest + r.nRecordError

\* C29: every invocation that has issued a product-page request and ended
\* has changed totalRequests by exactly one (recordRequest on success or
\* recordError on failure, never both), and an invocation that ended with no
\* outbound request issued (unparsable body, invalid identifier, product
\* already there) has left totalRequests and errorCount unchanged.
C29_OneForOneAccounting ==
  \A s \in Slots :
    reqs[s].pc = "done" =>
      /\ reqs[s].nPage > 0 => Recorded(reqs[s]) = 1
      /\ (reqs[s].nPage = 0 /\ reqs[s].nSearch = 0) => Recorded(reqs[s]) = 0

\* What the handler does: only these two kinds of invocation depart from the
\* one-for-one accounting: a body that does not parse (recordError, no
\* request issued) and an insert that fails after the page was fetched
\* (recordRequest and recordError).
C29_AccountingButTwoCases ==
  \A s \in Slots :
    LET r == reqs[s] IN
    (r.pc = "done" /\ r.body.parses /\ ~(r.nInsert = 1 /\ r.result = "Failed")) =>
      /\ r.nPage > 0 => Recorded(r) = 1
      /\ r.nPage = 0 => Recorded(r) = 0

\* The page was fetched and recorded, the insert failed: two recordings.
C29_CountedTwice ==
  \E s \in Slots :
    /\ reqs[s].pc = "done"
    /\ reqs[s].nPage = 1 /\ reqs[s].pageFailed = -1
    /\ reqs[s].nRecordRequest = 1 /\ reqs[s].nRecordError = 1

\* A body that does not parse: no request issued, an error recorded.
C29_ErrorWithoutRequest ==
  \E s \in Slots :
    /\ reqs[s].pc = "done"
    /\ ~reqs[s].body.parses
    /\ NoWork(reqs[s])
    /\ reqs[s].nRecordError = 1
    /\ tracker.errorCount > 0

(***************************************************************************)
(* The listing of a catalogue that fills a page: products in stock, the    *)
(* pipeline storing more, GET /api/products paging through them.           *)
(***************************************************************************)
\* Products in stock at the start: none, one short of a page, a page.
Stocks == {0, PageLimit - 1, PageLimit}

InitListing ==
  /\ now = Epoch
  /\ ticks = 0
  /\ late = 0
  /\ tracker = InitTracker
  /\ last = Called("init", InitTracker, 0, 0, NoResult)
  /\ reqs = [s \in Slots |-> IdleReq]
  /\ calls = 0
  /\ products = [a \in ASINs |-> 0]
  /\ storage = {}
  /\ imageRows = [a \in ASINs, p \in 0..(MaxUploads - 1) |-> 0]
  /\ succeeded = {}
  /\ applied = NotApplied
  /\ \E k \in Stocks : catalog = Stocked(k)

NextListing ==
  \/ Persist
  \/ Get

SpecListing == InitListing /\ [][NextListing]_vars

(***************************************************************************)
(* C30: the listing is complete.                                           *)
(***************************************************************************)
\* The rank of row k among these rows by created_at, newest first.
RankAmong(k, ks) ==
  1 + Cardinality({j \in ks : catalog.rows[j].created_at > catalog.rows[k].created_at})

\* The page of GET that a rank falls on.
PageOfRank(rank) == (rank - 1) \div PageLimit + 1

AllRows == 1..Len(catalog.rows)

\* The rows that have an image record.
ImagedRows == {k \in AllRows : catalog.rows[k].images > 0}

\* The request served last was GET with status=ALL.
GotAll == applied.op = "GET" /\ applied.input.status = "ALL"

\* C30: every product the pipeline has persisted, one stored with no image
\* included, is returned by GET /api/products with status=ALL on the page
\* given by its created_at rank (50 per page) and is counted in
\* pagination.total.
C30_ListingComplete ==
  GotAll =>
    /\ applied.output.total = Len(catalog.rows)
    /\ \A k \in AllRows :
         PageOfRank(RankAmong(k, AllRows)) = applied.input.page
           => k \in Range(applied.output.products)

\* What the handler does: the products with at least one image record are
\* listed, on the page of their rank among themselves, and counted; the
\* others are on no page.
C30_ImagedProductsListed ==
  GotAll =>
    /\ applied.output.total = Cardinality(ImagedRows)
    /\ Range(applied.output.products) =
         {k \in ImagedRows :
            PageOfRank(RankAmong(k, ImagedRows)) = applied.input.page}

\* A product stored with no image is missing from its page and from the
\* total.
C30_ImagelessNotListed ==
  /\ GotAll
  /\ applied.input.page = 1
  /\ \E k \in AllRows :
       /\ catalog.rows[k].images = 0
       /\ PageOfRank(RankAmong(k, AllRows)) = 1
       /\ k \notin Range(applied.output.products)
  /\ applied.output.total < Len(catalog.rows)

\* The second page has been asked for and lists the oldest product.
C30_SecondPageListed ==
  /\ GotAll
  /\ applied.input.page = 2
  /\ applied.output.products = <<1>>
  /\ applied.output.total = PageLimit + 1
  /\ applied.output.totalPages = 2

====
